---- MODULE Spec2Model ----
(***************************************************************************)
(* State-machine model of the ticket purchase bot:                         *)
(*   ticketbot/ticket_bot.py   TicketBot (orchestrator, status machine)    *)
(*   ticketbot/purchase.py     select_area (fallback area selection)       *)
(*   ticketbot/selector.py     Selector (wrappers around purchase.py)      *)
(* One action per step of the code between two calls to the browser; the   *)
(* browser, the clock and the operator are the environment, and every      *)
(* result they can give (a value, an Exception, a KeyboardInterrupt) is a  *)
(* nondeterministic choice.                                                *)
(* Non-ASCII literals of the source are written as ASCII words:            *)
(*   "sold_out" = U+5DF2 U+552E U+5B8C, "remaining" = U+5269 U+9918,       *)
(*   "hot_selling" = U+71B1 U+8CE3 U+4E2D.                                 *)
(***************************************************************************)
EXTENDS Integers, Sequences, FiniteSets, TLC

\* ------------------------------------------------------------------ bounds
MaxAreas == 2        \* candidates on the area-list page: 0..MaxAreas
MaxRemain == 2       \* largest count shown in a "remaining N" label
MaxLabelLen == 3     \* tokens in a label
MaxTickets == 2      \* config.TICKET_VALUE ranges over 1..MaxTickets
MaxRetry == 2        \* max_captcha_retry ranges over 0..MaxRetry
MaxCalls == 2        \* public operations invoked on one TicketBot
MaxLate == 1         \* seconds a time.sleep may return late
MaxOpen == 2         \* a start_time argument a few seconds after construction
MaxFar == 32         \* a start_time argument beyond the low-frequency threshold
MaxInterrupts == 1   \* KeyboardInterrupts the operator sends during one call
MaxOcrRetry == 3     \* set_max_retry arguments: 0..MaxOcrRetry
MaxTextLen == 5      \* characters in a text the recognizer yields
MaxOffered == 3      \* largest quantity a ticket form offers
MaxShows == 2        \* buttons on the show-list page: 0..MaxShows

\* ------------------------------------------------------- program constants
COARSE_THRESHOLD == 30   \* diff > 30: low-frequency wait
COARSE_SLEEP == 15       \* time.sleep(15)
FINE_SLEEP == 1          \* time.sleep(1) of the waiting loop
SUBMIT_SLEEP == 1        \* time.sleep(1) of purchase.submit_booking
AREA_SLEEP == 1          \* time.sleep(1) after driver.back() in purchase.select_area
ALERT_SLEEP == 1         \* time.sleep(1) of purchase.handle_captcha_error_alert
MINUTE == 60             \* timedelta(minutes=...) in seconds

MAX_OCR_RETRY == 5       \* config.MAX_OCR_RETRY
MIN_CAPTCHA_LEN == 4     \* if len(captcha_text) < 4

NoTime == -1             \* None for start_time / end_time / the start_time argument

\* -------------------------------------------------------------- BotStatus
StatusOrder ==
  << "IDLE", "INITIALIZING", "WAITING", "LOGGING_IN", "SELECTING_SHOW",
     "SELECTING_AREA", "SELECTING_TICKETS", "SOLVING_CAPTCHA", "SUBMITTING",
     "SUCCESS", "FAILED", "ERROR" >>

BotStatus == { StatusOrder[i] : i \in 1..Len(StatusOrder) }

Terminal == { "SUCCESS", "FAILED", "ERROR" }

\* ------------------------------------------------------------------ labels
\* A label (area.text.strip()) is a sequence of tokens; a run of digits is one
\* token, written as a digit string.
NumTok == << "0", "1", "2", "3", "4", "5", "6", "7", "8", "9" >>

\* the characters \d matches
Digits == { NumTok[n + 1] : n \in 0..9 }

\* (\d+) matches the whole token: one character or more, each a digit
IsDigits(tok) ==
  /\ Len(tok) >= 1
  /\ \A i \in 1..Len(tok) : SubSeq(tok, i, i) \in Digits

\* the value of one digit
DigitValue(c) == CHOOSE n \in 0..9 : NumTok[n + 1] = c

\* int(s) for a digit string: base ten, leading zeros allowed
RECURSIVE ToInt(_)
ToInt(tok) ==
  IF Len(tok) = 1 THEN DigitValue(tok)
  ELSE 10 * ToInt(SubSeq(tok, 1, Len(tok) - 1)) + DigitValue(SubSeq(tok, Len(tok), Len(tok)))

\* str(n) for a natural number
RECURSIVE Str(_)
Str(n) == IF n < 10 THEN NumTok[n + 1] ELSE Str(n \div 10) \o NumTok[(n % 10) + 1]

\* `marker in area_name`
Contains(label, marker) == \E i \in 1..Len(label) : label[i] = marker

NoMatch == -1

\* re.search(r"remaining\s*(\d+)", area_name): the leftmost marker that is
\* directly followed by digits; int(match.group(1)), or NoMatch
RemainMatch(label) ==
  LET hits == { i \in 1..(Len(label) - 1) :
                  label[i] = "remaining" /\ IsDigits(label[i + 1]) }
  IN IF hits = {} THEN NoMatch
     ELSE ToInt(label[(CHOOSE i \in hits : \A j \in hits : i <= j) + 1])

\* The labels the area-list page shows in this model: sequences of at most
\* MaxLabelLen tokens, no token twice.
Tokens == { "sold_out", "remaining", "hot_selling" }
            \cup { Str(n) : n \in 1..MaxRemain }

Labels ==
  { l \in UNION { [1..k -> Tokens] : k \in 0..MaxLabelLen } :
      \A i, j \in 1..Len(l) : l[i] = l[j] => i = j }

NoLabel == << "?" >>     \* area_name before the first label is read

\* Variants of the chain with one plausible slip each, used to show that the
\* properties of select_area below depend on it.
\* the sold-out test moved to the end of the chain
ClassifySoldOutLast(area_name, min_ticket) ==
  IF Contains(area_name, "remaining")
  THEN IF RemainMatch(area_name) # NoMatch /\ RemainMatch(area_name) < min_ticket
       THEN "skip" ELSE "attempt"
  ELSE IF Contains(area_name, "hot_selling") THEN "attempt"
  ELSE "skip"

\* `remain <= min_ticket` in place of `remain < min_ticket`
ClassifyStrict(area_name, min_ticket) ==
  IF Contains(area_name, "sold_out") THEN "skip"
  ELSE IF Contains(area_name, "remaining")
       THEN IF RemainMatch(area_name) # NoMatch /\ RemainMatch(area_name) <= min_ticket
            THEN "skip" ELSE "attempt"
  ELSE IF Contains(area_name, "hot_selling") THEN "attempt"
  ELSE "skip"

\* the hot-selling test moved before the remaining test
ClassifyHotFirst(area_name, min_ticket) ==
  IF Contains(area_name, "sold_out") THEN "skip"
  ELSE IF Contains(area_name, "hot_selling") THEN "attempt"
  ELSE IF Contains(area_name, "remaining")
       THEN IF RemainMatch(area_name) # NoMatch /\ RemainMatch(area_name) < min_ticket
            THEN "skip" ELSE "attempt"
  ELSE "skip"

\* The if / elif chain of select_area (lines 110-129): "skip" (continue) or
\* "attempt" (falls through to the URL lookup).
Classify(area_name, min_ticket) ==
  IF Contains(area_name, "sold_out") THEN "skip"
  ELSE IF Contains(area_name, "remaining")
       THEN IF RemainMatch(area_name) # NoMatch /\ RemainMatch(area_name) < min_ticket
            THEN "skip" ELSE "attempt"
  ELSE IF Contains(area_name, "hot_selling") THEN "attempt"
  ELSE "skip"

\* ------------------------------------------------------------------- state
VARIABLES
  status, error_message, start_time, end_time,  \* TicketBot fields
  max_captcha_retry,                            \* TicketBot.max_captcha_retry
  TICKET_VALUE,                                 \* config.TICKET_VALUE (a digit string)
  now,                                          \* datetime.now(), in seconds
  op, pc, calls, ret,         \* running operation, its position, calls made, its result
  open_at, prepare,           \* the start_time / prepare_minutes arguments
  wfx,                        \* wait_until_start_time: refreshes and sleeps issued
  n_areas, ai,                \* select_area: len(available_areas), index of the iteration
  area_name, named,           \* select_area: the local area_name; was it read in iteration ai
  fx,                         \* select_area: browser calls issued in iteration ai
  attempt, cyc,               \* _handle_captcha_with_retry: loop index, steps of iteration attempt
  rejections,                 \* history: submits of this run answered with has_error
  ocr_failures,               \* history: cycles of this run in which recognition ran out of retries
  stages, finished,           \* history: stages started / returned without raising
  cause,                      \* history: why the operation stopped
  intrs, acted_after,         \* history: KeyboardInterrupts raised; a browser call came after one
  max_retry,                  \* CaptchaSolver.max_retry
  ocr_attempt, last_error,    \* solve_with_retry: loop index, last_error (attempt and kind)
  raw, captcha_text,          \* solve_with_retry: the recognizer's latest text, the text returned
  ocr_fx,                     \* solve_with_retry: acquisitions and refreshes issued
  dialog, alert_text,         \* the alert the page shows after a submit; alert.text as read
  has_error, error_msg,       \* verify_and_handle_error: the tuple it returns
  fb_fx,                      \* handle_captcha_error_alert: seconds waited, calls issued
  target_show, target_area,   \* TicketBot.target_show, TicketBot.target_area
  ticket_count,               \* TicketBot.ticket_count
  sel_target,                 \* Selector.target_date, .target_area, .ticket_count
  game_list, opened,          \* select_match_and_buy: the buttons of the page; the show opened
  form                        \* the ticket form: quantities offered, quantity selected,
                              \* texts typed into the challenge input, submits

botVars == << status, error_message, start_time, end_time >>
areaVars == << n_areas, ai, area_name, named, fx >>
cycleVars == << attempt, cyc, rejections, ocr_failures >>
solveVars == << max_retry, ocr_attempt, last_error, raw, captcha_text, ocr_fx >>
feedbackVars == << dialog, alert_text, has_error, error_msg, fb_fx >>
sessionVars == << target_show, target_area, ticket_count, sel_target >>
showVars == << game_list, opened >>
vars == << status, error_message, start_time, end_time, max_captcha_retry,
           TICKET_VALUE, now, op, pc, calls, ret, open_at, prepare, wfx,
           n_areas, ai, area_name, named, fx, attempt, cyc, rejections, ocr_failures,
           stages, finished, cause, intrs, acted_after,
           max_retry, ocr_attempt, last_error, raw, captcha_text, ocr_fx,
           dialog, alert_text, has_error, error_msg, fb_fx,
           target_show, target_area, ticket_count, sel_target,
           game_list, opened, form >>

NoWait == [ refresh |-> 0, long |-> 0, long_secs |-> 0, coarse |-> 0, fine |-> 0,
            poll_secs |-> 0 ]

NoText == << "?" >>      \* no text yet

NoError == << 0, "none" >>   \* last_error = None

NoOcr == [ gets |-> 0, refreshes |-> 0, refresh_errors |-> 0 ]

NoDialog == "no_dialog"      \* the page shows no alert

NoAlert == [ waited |-> 0, reads |-> 0, accepts |-> 0, sleeps |-> 0 ]

\* config.TARGET_DATE, and the other show a caller may name
Shows == { "show_a", "show_b" }

TARGET_DATE == "show_a"

\* config.TARGET_AREA is the empty string; the areas a caller may name
TargetAreas == { "area_a", "area_b" }

TARGET_AREA == ""

\* config.TICKET_VALUE as the repository sets it
TICKET_DEFAULT == "2"

\* an argument left at its default None
NoArg == "None"

\* no purchase page was opened
NoShow == "no_show"

\* no quantity selected
NoQuantity == "none"

\* the ticket form before select_tickets: nothing read, selected, typed or
\* submitted
NoForm == [ offered |-> {}, selected |-> NoQuantity, typed |-> << >>, submits |-> 0 ]

\* TicketBot.__init__: status ends IDLE, no error, no timestamps
InitBot ==
  /\ status = "IDLE"
  /\ error_message = ""
  /\ start_time = NoTime
  /\ end_time = NoTime
  /\ max_captcha_retry \in 0..MaxRetry
  /\ TICKET_VALUE \in { Str(n) : n \in 1..MaxTickets }
  /\ now = 0
  /\ op = "none" /\ pc = "idle" /\ calls = 0 /\ ret = "none"
  /\ open_at = NoTime /\ prepare = 0 /\ wfx = NoWait
  /\ n_areas = 0 /\ ai = 0 /\ area_name = NoLabel /\ named = FALSE /\ fx = << >>
  /\ attempt = 0 /\ cyc = << >> /\ rejections = 0 /\ ocr_failures = 0
  /\ stages = << >> /\ finished = << >> /\ cause = "none"
  /\ intrs = 0 /\ acted_after = FALSE
  /\ max_retry = MAX_OCR_RETRY
  /\ ocr_attempt = 0 /\ last_error = NoError
  /\ raw = NoText /\ captcha_text = NoText /\ ocr_fx = NoOcr
  /\ dialog = NoDialog /\ alert_text = NoDialog
  /\ has_error = FALSE /\ error_msg = "" /\ fb_fx = NoAlert
  /\ target_show = TARGET_DATE /\ target_area = TARGET_AREA
  /\ ticket_count = TICKET_VALUE
  /\ sel_target = [ date |-> TARGET_DATE, area |-> TARGET_AREA, count |-> TICKET_VALUE ]
  /\ game_list = << >> /\ opened = NoShow
  /\ form = NoForm

\* ------------------------------------------------- how an operation stops
\* An Exception leaves the running operation at time t. In start_booking it is
\* caught by `except Exception` (lines 421-426): ERROR, str(e), end_time.
Raise(msg, why, t) ==
  /\ cause' = why
  /\ pc' = "done"
  /\ IF op = "start_booking"
     THEN /\ status' = "ERROR"
          /\ error_message' = msg
          /\ end_time' = t
          /\ ret' = "false"
     ELSE /\ UNCHANGED << status, error_message, end_time >>
          /\ ret' = "raise"

\* the operator can still send a KeyboardInterrupt after k more were raised
\* in the same step
CanInterrupt(k) == intrs + k < MaxInterrupts

\* A KeyboardInterrupt leaves the running operation, k others having been
\* swallowed in the same step. In start_booking it is caught by
\* `except KeyboardInterrupt` (lines 415-419): FAILED and the user-interrupt
\* message.
InterruptedAfter(k) ==
  /\ CanInterrupt(k)
  /\ intrs' = intrs + k + 1
  /\ cause' = "interrupt"
  /\ pc' = "done"
  /\ IF op = "start_booking"
     THEN /\ status' = "FAILED"
          /\ error_message' = "user_interrupt"
          /\ UNCHANGED end_time
          /\ ret' = "false"
     ELSE /\ UNCHANGED << status, error_message, end_time >>
          /\ ret' = "intr"

Interrupted == InterruptedAfter(0)

\* the operation goes on to position p
Goto(p) ==
  /\ pc' = p
  /\ UNCHANGED << status, error_message, end_time, ret, cause >>

\* the step works on a candidate or on a submission cycle
Acts == acted_after' = (acted_after \/ intrs > 0)

\* what no step of a running operation changes; the steps of the bot, of its
\* wait and of select_area leave the locals of solve_with_retry alone
Fixed == UNCHANGED << start_time, max_captcha_retry, TICKET_VALUE, op, calls,
                      open_at, prepare, solveVars, feedbackVars, sessionVars,
                      showVars, form >>

\* a public operation may be invoked when none is running
CanCall == pc \in { "idle", "done" } /\ calls < MaxCalls

\* a fresh call: locals and history of the previous call are gone; the
\* KeyboardInterrupts of the new call are counted by the caller of FreshLocals
FreshLocals ==
  /\ calls' = calls + 1
  /\ max_retry' = max_retry
  /\ ocr_attempt' = 0 /\ last_error' = NoError
  /\ raw' = NoText /\ captcha_text' = NoText /\ ocr_fx' = NoOcr
  /\ dialog' = NoDialog /\ alert_text' = NoDialog
  /\ has_error' = FALSE /\ error_msg' = "" /\ fb_fx' = NoAlert
  /\ UNCHANGED sessionVars
  /\ game_list' = << >> /\ opened' = NoShow
  /\ form' = NoForm
  /\ cause' = "none" /\ acted_after' = FALSE
  /\ wfx' = NoWait
  /\ n_areas' = 0 /\ ai' = 0 /\ area_name' = NoLabel /\ named' = FALSE /\ fx' = << >>
  /\ attempt' = 0 /\ cyc' = << >> /\ rejections' = 0 /\ ocr_failures' = 0
  /\ finished' = << >>

\* a fresh call in which no KeyboardInterrupt was raised yet
Fresh ==
  /\ FreshLocals
  /\ intrs' = 0

\* range(1, max + 2): one iteration too many
LoopHasNextOffByOne(a, max) == a + 1 <= max + 1

\* ------------------------------------------------- purchase.select_area
\* for attempt in range(1, max_captcha_retry + 1): after iteration a (0 before
\* the first) the loop has another iteration
LoopHasNext(a, max) == a + 1 <= max

\* The labels read from the page. Runs of the whole bot are explored on pages
\* whose areas are sold out or hot selling; select_area on its own is explored
\* on every label.
PageLabels ==
  IF op = "start_booking" THEN { << "sold_out" >>, << "hot_selling" >> } ELSE Labels

\* select_area returned True. Called by start_booking (through
\* Selector.select_area) its locals are gone and the run goes on to step 4 with
\* status SOLVING_CAPTCHA; with max_captcha_retry = 0 the loop body never runs,
\* _handle_captcha_with_retry returns False and start_booking raises (line 413).
AreaReturnTrue ==
  /\ finished' = Append(finished, "select_area")
  /\ UNCHANGED << rejections, ocr_failures >>
  /\ IF op = "start_booking"
     THEN /\ stages' = Append(stages, "cycle")
          /\ n_areas' = 0 /\ ai' = 0 /\ area_name' = NoLabel /\ named' = FALSE
          /\ fx' = << >>
          /\ cyc' = << >>
          /\ IF LoopHasNext(0, max_captcha_retry)
             THEN /\ pc' = "cycle_tickets"
                  /\ attempt' = 1
                  /\ status' = "SOLVING_CAPTCHA"
                  /\ UNCHANGED << error_message, end_time, ret, cause >>
             ELSE /\ status' = "ERROR"
                  /\ error_message' = "booking_incomplete"
                  /\ end_time' = now
                  /\ ret' = "false"
                  /\ cause' = "submit_exhausted"
                  /\ pc' = "done"
                  /\ UNCHANGED attempt
     ELSE /\ pc' = "done"
          /\ ret' = "true"
          /\ fx' = Append(fx, "found")
          /\ UNCHANGED << status, error_message, end_time, cause, stages,
                          n_areas, ai, area_name, named, attempt, cyc >>

\* driver.back(); time.sleep(1) as a list of calls: the sleep is reached when
\* back() returned
BackCalls == { << "back" >>, << "back", "sleep" >> }

\* the seconds the calls c take when each of them returns: time.sleep(1)
\* takes one second, the browser calls none
Slept(c) == IF \E i \in 1..Len(c) : c[i] = "sleep" THEN AREA_SLEEP ELSE 0

\* the handler gives up: the exception of one candidate ends select_area
HandlerAborts(f, k) ==
  /\ fx' = f
  /\ intrs' = intrs + k
  /\ UNCHANGED now
  /\ Raise("select_area_failed", "fault", now)

\* lines 171-178, except Exception as area_error: driver.back(); time.sleep(1)
\* inside a bare try/except, then continue. Whatever back() or the sleep
\* raises (a KeyboardInterrupt included) is swallowed. f: the calls of this
\* iteration so far; k: KeyboardInterrupts already swallowed in this step.
\* The sleep that returns takes AREA_SLEEP seconds; the call that raises, and
\* the sleep a KeyboardInterrupt cuts short, take none.
HandlerBack(f, k) ==
  /\ \E b \in BackCalls :
       /\ fx' = f \o b
       /\ \/ /\ intrs' = intrs + k
             /\ now' = now + Slept(b)
          \/ /\ CanInterrupt(k)
             /\ intrs' = intrs + k + 1
             /\ UNCHANGED now
  /\ Goto("sa_loop")

\* lines 75-101: wait for the area list, find the candidates; an empty list
\* raises
AreaList ==
  /\ pc = "sa_list"
  /\ Fixed
  /\ UNCHANGED << now, wfx, stages, finished, cycleVars, area_name, named, fx,
                  acted_after >>
  /\ \/ \E n \in 0..MaxAreas :
          IF n = 0
          THEN /\ Raise("select_area_failed", "area_exhausted", now)
               /\ UNCHANGED << n_areas, ai, intrs >>
          ELSE /\ n_areas' = n
               /\ ai' = 0
               /\ Goto("sa_loop")
               /\ UNCHANGED intrs
     \/ /\ Raise("select_area_failed", "fault", now)
        /\ UNCHANGED << n_areas, ai, intrs >>
     \/ /\ Interrupted
        /\ UNCHANGED << n_areas, ai >>

\* line 103, for area in available_areas: the loop takes the next candidate.
\* The local area_name keeps the previous candidate's label until the next
\* read (line 106) assigns it; the log message of line 172 shows it when that
\* read raises.
AreaNext ==
  /\ pc = "sa_loop"
  /\ ai < n_areas
  /\ ai' = ai + 1
  /\ UNCHANGED area_name
  /\ named' = FALSE
  /\ fx' = << >>
  /\ Goto("sa_read")
  /\ Fixed
  /\ UNCHANGED << now, wfx, stages, finished, cycleVars, n_areas, intrs, acted_after >>

\* lines 105-129: read the candidate's id and label and classify it
AreaRead ==
  /\ pc = "sa_read"
  /\ Fixed
  /\ Acts
  /\ UNCHANGED << wfx, stages, finished, cycleVars, n_areas, ai >>
  /\ \/ \E l \in PageLabels :
          /\ area_name' = l
          /\ named' = TRUE
          /\ Goto(IF Classify(l, ToInt(TICKET_VALUE)) = "skip" THEN "sa_loop" ELSE "sa_nav")
          /\ UNCHANGED << fx, intrs, now >>
     \/ /\ UNCHANGED << area_name, named >>
        /\ HandlerBack(<< >>, 0)
     \/ /\ Interrupted
        /\ UNCHANGED << area_name, named, fx, now >>

\* lines 131-142: look the purchase URL up, then driver.get it or click
AreaNavigate ==
  /\ pc = "sa_nav"
  /\ Fixed
  /\ Acts
  /\ UNCHANGED << wfx, stages, finished, cycleVars, n_areas, ai, area_name, named >>
  /\ LET f1 == Append(fx, "lookup") IN
     \/ HandlerBack(f1, 0)
     \/ /\ Interrupted
        /\ fx' = f1
        /\ UNCHANGED now
     \/ \E how \in { "get", "click" } :
          LET f2 == Append(f1, how) IN
          \/ /\ Goto("sa_probe")
             /\ fx' = f2
             /\ UNCHANGED << intrs, now >>
          \/ HandlerBack(f2, 0)
          \/ /\ Interrupted
             /\ fx' = f2
             /\ UNCHANGED now

\* what the page shows when the captcha image did not appear: the area list
\* (line 153), an error message (lines 158-159), or neither
ProbeSignals == { "list_shown", "error_shown", "no_signal" }

\* driver.back() whatever the page shows
AfterSignalAlwaysBack(sig) == << sig, "back", "sleep" >>

\* lines 153-169: the area list is shown: continue; an error message or
\* nothing: driver.back(), time.sleep(1), continue. The sleep moves the clock
\* by AREA_SLEEP seconds.
AfterSignal(sig) ==
  IF sig = "list_shown" THEN << sig >> ELSE << sig, "back", "sleep" >>

\* the probe finds the captcha image and the loop goes on all the same
AreaProbeGoesOn ==
  /\ pc = "sa_probe"
  /\ Fixed
  /\ fx' = Append(fx, "found")
  /\ Goto("sa_loop")
  /\ UNCHANGED << now, wfx, acted_after, stages, finished, cycleVars, n_areas, ai,
                  area_name, named, intrs >>

\* lines 144-169: probe for the captcha image. The probe sits in a bare
\* try/except: a timeout, any Exception and a KeyboardInterrupt (k = 1) all
\* land in the except branch, which looks for the area list, then for an error
\* message, and navigates back unless the area list is shown. An Exception
\* raised inside the branch goes to the handler of line 171, a
\* KeyboardInterrupt raised inside it leaves select_area.
AreaProbe ==
  /\ pc = "sa_probe"
  /\ Fixed
  /\ UNCHANGED << wfx, acted_after >>
  /\ \/ /\ AreaReturnTrue
        /\ UNCHANGED << intrs, now >>
     \/ \E k \in 0..1 :
          /\ k = 0 \/ CanInterrupt(0)
          /\ UNCHANGED << stages, finished, cycleVars, n_areas, ai, area_name, named >>
          /\ \/ /\ \E sig \in ProbeSignals :
                     /\ fx' = fx \o AfterSignal(sig)
                     /\ now' = now + Slept(AfterSignal(sig))
                /\ Goto("sa_loop")
                /\ intrs' = intrs + k
             \/ /\ InterruptedAfter(k)
                /\ \E f \in { fx, Append(fx, "back"), fx \o << "back", "sleep" >> } : fx' = f
                /\ UNCHANGED now
             \/ \E f \in { fx, Append(fx, "back") } : HandlerBack(f, k)

\* after the loop select_area returns False instead of raising
AreaExhaustedReturns ==
  /\ pc = "sa_loop"
  /\ ai = n_areas
  /\ Fixed
  /\ UNCHANGED << now, wfx, stages, finished, cycleVars, areaVars, intrs, acted_after >>
  /\ pc' = "done"
  /\ ret' = "false"
  /\ cause' = "area_exhausted"
  /\ UNCHANGED << status, error_message, end_time >>

\* lines 180-185: every candidate was evaluated, none succeeded
AreaExhausted ==
  /\ pc = "sa_loop"
  /\ ai = n_areas
  /\ Fixed
  /\ UNCHANGED << now, wfx, stages, finished, cycleVars, areaVars, intrs, acted_after >>
  /\ Raise("select_area_failed", "area_exhausted", now)

\* --------------------------------------- TicketBot.wait_until_start_time
\* datetime - timedelta(minutes=prepare_minutes)
ReadyTime(open, prep) == open - prep * MINUTE

\* how late a sleep may return
Late == 0..MaxLate

\* one more call of kind k
Count(k) == wfx' = [ wfx EXCEPT ![k] = @ + 1 ]

\* wait_until_start_time returned
WaitReturn ==
  IF op = "start_booking"
  THEN /\ pc' = "navigate"
       /\ stages' = Append(stages, "navigate")
       /\ finished' = Append(finished, "wait")
       /\ UNCHANGED << status, error_message, end_time, ret, cause >>
  ELSE /\ pc' = "done"
       /\ UNCHANGED << status, error_message, end_time, ret, cause, stages, finished >>

\* every argument counts as a start time
HasStartTimeAlways(st) == TRUE

\* line 233: if not start_time
HasStartTime(st) == st # NoTime

\* the long sleep is taken at ready_time too
LongSleepDueInclusive(t, ready) == t <= ready

\* line 243: if now < ready_time
LongSleepDue(t, ready) == t < ready

\* the refresh is issued only on the very second of the sale
SaleOpenExact(diff) == diff = 0

\* the refresh comes one second early
SaleOpenEarly(diff) == diff <= 1

\* line 255: if diff <= 0
SaleOpen(diff) == diff <= 0

\* lines 233-243: no start time: refresh and return; else WAITING and the
\* choice between the long sleep and the polling loop
WaitEnter ==
  /\ pc = "wait_enter"
  /\ Fixed
  /\ UNCHANGED << now, areaVars, cycleVars, acted_after >>
  /\ \/ /\ ~HasStartTime(open_at)
        /\ Count("refresh")
        /\ \/ /\ WaitReturn
              /\ UNCHANGED intrs
           \/ /\ Raise("refresh_failed", "fault", now)
              /\ UNCHANGED << intrs, stages, finished >>
           \/ /\ Interrupted
              /\ UNCHANGED << stages, finished >>
     \/ /\ HasStartTime(open_at)
        /\ status' = "WAITING"
        /\ pc' = IF LongSleepDue(now, ReadyTime(open_at, prepare))
                 THEN "wait_long" ELSE "wait_poll"
        /\ UNCHANGED << error_message, end_time, ret, cause, wfx, intrs, stages, finished >>

\* lines 244-247: wait_seconds = ready_time - now; time.sleep(wait_seconds)
WaitLong ==
  /\ pc = "wait_long"
  /\ Fixed
  /\ UNCHANGED << areaVars, cycleVars, stages, finished, acted_after >>
  /\ LET wait_seconds == ReadyTime(open_at, prepare) - now IN
     /\ wfx' = [ wfx EXCEPT !.long = @ + 1, !.long_secs = wait_seconds ]
     /\ \/ /\ \E late \in Late : now' = now + wait_seconds + late
           /\ Goto("wait_poll")
           /\ UNCHANGED intrs
        \/ /\ Interrupted
           /\ UNCHANGED now

\* exactly 30 seconds count as far away
CoarseInclusive(diff) == diff >= COARSE_THRESHOLD

\* line 260: elif diff > 30
Coarse(diff) == diff > COARSE_THRESHOLD

\* the latest time a polling sleep can end: it starts before the start
\* time and lasts at most COARSE_SLEEP + MaxLate
MaxClock == MaxFar + COARSE_SLEEP + MaxLate

\* 15 s whatever the distance
PollSleepAlwaysCoarse(diff) == COARSE_SLEEP

\* lines 262, 265: time.sleep(15) or time.sleep(1)
PollSleep(diff) == IF Coarse(diff) THEN COARSE_SLEEP ELSE FINE_SLEEP

\* lines 252-265: one iteration of the polling loop
WaitPoll ==
  /\ pc = "wait_poll"
  /\ Fixed
  /\ UNCHANGED << areaVars, cycleVars, acted_after >>
  /\ LET diff == open_at - now IN
     \/ /\ SaleOpen(diff)
        /\ Count("refresh")
        /\ UNCHANGED now
        /\ \/ /\ WaitReturn
              /\ UNCHANGED intrs
           \/ /\ Raise("refresh_failed", "fault", now)
              /\ UNCHANGED << intrs, stages, finished >>
           \/ /\ Interrupted
              /\ UNCHANGED << stages, finished >>
     \/ /\ ~SaleOpen(diff)
        /\ wfx' = [ wfx EXCEPT ![IF Coarse(diff) THEN "coarse" ELSE "fine"] = @ + 1,
                               !.poll_secs = PollSleep(diff) ]
        /\ UNCHANGED << stages, finished >>
        /\ \/ /\ \E late \in Late :
                   /\ now + PollSleep(diff) + late <= MaxClock
                   /\ now' = now + PollSleep(diff) + late
              /\ Goto("wait_poll")
              /\ UNCHANGED intrs
           \/ /\ Interrupted
              /\ UNCHANGED now

\* ------------------------------------------------ TicketBot.start_booking
\* the start_time arguments tried: none, already past, a few seconds ahead
OpenTimes == { NoTime, 0, MaxOpen }

PrepareMinutes == { 0, 1 }

\* lines 371-384: start_time is recorded, then step 0 or step 1
StartBooking(st, prep) ==
  /\ CanCall
  /\ Fresh
  /\ op' = "start_booking"
  /\ ret' = "none"
  /\ start_time' = now
  /\ open_at' = st
  /\ prepare' = prep
  /\ pc' = IF st # NoTime THEN "wait_enter" ELSE "navigate"
  /\ stages' = IF st # NoTime THEN << "wait" >> ELSE << "navigate" >>
  /\ UNCHANGED << status, error_message, end_time, max_captcha_retry, TICKET_VALUE, now >>

\* a failure of _navigate_to_buy_page is swallowed and the run goes on
NavigateSwallows ==
  /\ pc = "navigate"
  /\ Fixed
  /\ UNCHANGED << now, wfx, areaVars, cycleVars, acted_after >>
  /\ pc' = "select_show"
  /\ status' = "SELECTING_SHOW"
  /\ stages' = Append(stages, "select_show")
  /\ \/ finished' = Append(finished, "navigate")
     \/ UNCHANGED finished
  /\ UNCHANGED << error_message, end_time, ret, cause, intrs >>

\* _navigate_to_buy_page (lines 271-296), then line 388
NavigateToBuyPage ==
  /\ pc = "navigate"
  /\ Fixed
  /\ UNCHANGED << now, wfx, areaVars, cycleVars, acted_after >>
  /\ \/ /\ pc' = "select_show"
        /\ status' = "SELECTING_SHOW"
        /\ stages' = Append(stages, "select_show")
        /\ finished' = Append(finished, "navigate")
        /\ UNCHANGED << error_message, end_time, ret, cause, intrs >>
     \/ /\ Raise("cannot_enter_buy_page", "fault", now)
        /\ UNCHANGED << intrs, stages, finished >>
     \/ /\ Interrupted
        /\ UNCHANGED << stages, finished >>

\* Selector.select_show (selector.py 64-91), then line 393
SelectShow ==
  /\ pc = "select_show"
  /\ Fixed
  /\ UNCHANGED << now, wfx, areaVars, cycleVars, acted_after >>
  /\ \/ /\ pc' = "sa_list"
        /\ status' = "SELECTING_AREA"
        /\ stages' = Append(stages, "select_area")
        /\ finished' = Append(finished, "select_show")
        /\ UNCHANGED << error_message, end_time, ret, cause, intrs >>
     \/ /\ Raise("select_show_failed", "fault", now)
        /\ UNCHANGED << intrs, stages, finished >>
     \/ /\ Interrupted
        /\ UNCHANGED << stages, finished >>

\* --------------------------------- TicketBot._handle_captcha_with_retry
\* line 333: if attempt < self.max_captcha_retry: continue
MoreAttempts(a, max) == a < max

\* line 343: if attempt == self.max_captcha_retry: raise
LastAttempt(a, max) == a = max

\* the for loop goes to its next iteration; when there is none the method
\* returns False and start_booking raises (line 413)
LoopNext(t) ==
  IF LoopHasNext(attempt, max_captcha_retry)
  THEN /\ attempt' = attempt + 1
       /\ Goto("cycle_tickets")
  ELSE /\ Raise("booking_incomplete", "submit_exhausted", t)
       /\ UNCHANGED attempt

\* lines 341-344: an Exception inside iteration `attempt`
CycleFail(why, t) ==
  IF LastAttempt(attempt, max_captcha_retry)
  THEN /\ Raise("captcha_failed", why, t)
       /\ UNCHANGED attempt
  ELSE LoopNext(t)

\* line 319: Selector.select_ticket_count, the first step of an iteration
CycleTickets ==
  /\ pc = "cycle_tickets"
  /\ Fixed
  /\ Acts
  /\ UNCHANGED << now, wfx, areaVars, stages, finished >>
  /\ cyc' = << "select_tickets" >>
  /\ UNCHANGED << rejections, ocr_failures >>
  /\ \/ /\ Goto("cycle_solve")
        /\ UNCHANGED << attempt, intrs >>
     \/ /\ CycleFail("fault", now)
        /\ UNCHANGED intrs
     \/ /\ Interrupted
        /\ UNCHANGED attempt

\* line 322: CaptchaSolver.solve_and_fill; it raises when recognition used up
\* its retries or when the text cannot be filled in
CycleSolve ==
  /\ pc = "cycle_solve"
  /\ Fixed
  /\ Acts
  /\ UNCHANGED << now, wfx, areaVars, stages, finished >>
  /\ cyc' = Append(cyc, "solve_and_fill")
  /\ UNCHANGED rejections
  /\ \/ /\ Goto("cycle_submit")
        /\ UNCHANGED << attempt, intrs, ocr_failures >>
     \/ /\ CycleFail("ocr_exhausted", now)
        /\ ocr_failures' = ocr_failures + 1
        /\ UNCHANGED intrs
     \/ /\ CycleFail("fault", now)
        /\ UNCHANGED << intrs, ocr_failures >>
     \/ /\ Interrupted
        /\ UNCHANGED << attempt, ocr_failures >>

\* line 326: purchase.submit_booking (click, time.sleep(1))
CycleSubmit ==
  /\ pc = "cycle_submit"
  /\ Fixed
  /\ Acts
  /\ UNCHANGED << wfx, areaVars, stages, finished >>
  /\ cyc' = Append(cyc, "submit")
  /\ UNCHANGED << rejections, ocr_failures >>
  /\ \/ /\ Goto("cycle_verify")
        /\ now' = now + SUBMIT_SLEEP
        /\ UNCHANGED << attempt, intrs >>
     \/ /\ CycleFail("fault", now)
        /\ UNCHANGED << now, intrs >>
     \/ /\ Interrupted
        /\ UNCHANGED << now, attempt >>

\* True is returned and the status is left at SOLVING_CAPTCHA
SucceedKeepsStatus(t) ==
  /\ end_time' = t
  /\ ret' = "true"
  /\ pc' = "done"
  /\ cause' = "accepted"
  /\ UNCHANGED << status, error_message >>

\* SUCCESS is reported and end_time is left as it was
SucceedNoEndTime(t) ==
  /\ status' = "SUCCESS"
  /\ ret' = "true"
  /\ pc' = "done"
  /\ cause' = "accepted"
  /\ UNCHANGED << error_message, end_time >>

\* lines 401-411: SUCCESS, end_time, return True
Succeed(t) ==
  /\ status' = "SUCCESS"
  /\ end_time' = t
  /\ ret' = "true"
  /\ pc' = "done"
  /\ cause' = "accepted"
  /\ UNCHANGED error_message

\* lines 329-339: CaptchaSolver.verify_and_handle_error and the verdict.
\* has_error comes from handle_captcha_error_alert returning True, which it
\* does after alert.accept() and time.sleep(1) (purchase.py lines 327-330):
\* the rejected submit is known ALERT_SLEEP seconds after the check began.
CycleVerify ==
  /\ pc = "cycle_verify"
  /\ Fixed
  /\ UNCHANGED << wfx, areaVars, stages, acted_after, ocr_failures >>
  /\ \/ /\ cyc' = Append(cyc, "accepted")
        /\ Succeed(now)
        /\ finished' = Append(finished, "cycle")
        /\ UNCHANGED << attempt, intrs, rejections, now >>
     \/ /\ cyc' = Append(cyc, "rejected")
        /\ rejections' = rejections + 1
        /\ now' = now + ALERT_SLEEP
        /\ IF MoreAttempts(attempt, max_captcha_retry)
           THEN LoopNext(now + ALERT_SLEEP)
           ELSE CycleFail("submit_exhausted", now + ALERT_SLEEP)
        /\ UNCHANGED << finished, intrs >>
     \/ /\ Interrupted
        /\ UNCHANGED << cyc, attempt, finished, rejections, now >>

\* ------------------------------------------------ TicketBot.report_status
\* line 447: if self.start_time and self.end_time
ReportHasDuration == start_time # NoTime /\ end_time # NoTime

\* lines 448-449: report['duration_seconds']
DurationSeconds == end_time - start_time

\* line 440: report['error_message']
ReportErrorMessage == error_message

\* ------------------------------------------- the other public operations
\* TicketBot.load_login_session (lines 173-214): LOGGING_IN; True when the
\* cookies were loaded or the user logged in by hand, False otherwise; an
\* Exception is recorded in error_message (lines 211-214). Only Exception is
\* caught: a KeyboardInterrupt of load_page, load_cookies, refresh_page,
\* input() or save_cookies leaves the call without a return value, the
\* status staying LOGGING_IN.
LoadLoginSession ==
  /\ CanCall
  /\ FreshLocals
  /\ op' = "load_login_session"
  /\ pc' = "done"
  /\ status' = "LOGGING_IN"
  /\ stages' = << >>
  /\ UNCHANGED << start_time, end_time, max_captcha_retry, TICKET_VALUE, now, open_at, prepare >>
  /\ \/ /\ \E r \in { "true", "false" } : ret' = r
        /\ intrs' = 0
        /\ UNCHANGED error_message
     \/ /\ ret' = "false"
        /\ intrs' = 0
        /\ error_message' = "login_failed"
     \/ /\ MaxInterrupts > 0
        /\ ret' = "intr"
        /\ intrs' = 1
        /\ UNCHANGED error_message

\* TicketBot.reset (lines 487-496): IDLE, no error, no timestamps
Reset ==
  /\ CanCall
  /\ Fresh
  /\ op' = "reset"
  /\ pc' = "done"
  /\ ret' = "none"
  /\ status' = "IDLE"
  /\ error_message' = ""
  /\ start_time' = NoTime
  /\ end_time' = NoTime
  /\ stages' = << >>
  /\ UNCHANGED << max_captcha_retry, TICKET_VALUE, now, open_at, prepare >>

\* the clock goes on while no operation runs: the next datetime.now() (line
\* 371) gives a later time
Elapse ==
  /\ pc \in { "idle", "done" }
  /\ now < MaxOpen
  /\ now' = now + 1
  /\ UNCHANGED << botVars, max_captcha_retry, TICKET_VALUE, op, pc, calls, ret,
                  open_at, prepare, wfx, areaVars, cycleVars, stages, finished,
                  cause, intrs, acted_after, solveVars, feedbackVars,
                  sessionVars, showVars, form >>

\* TicketBot.wait_until_start_time invoked by the caller
CallWait(st, prep) ==
  /\ CanCall
  /\ Fresh
  /\ op' = "wait_until_start_time"
  /\ ret' = "none"
  /\ open_at' = st
  /\ prepare' = prep
  /\ pc' = "wait_enter"
  /\ stages' = << >>
  /\ UNCHANGED << botVars, max_captcha_retry, TICKET_VALUE, now >>

\* purchase.select_area(driver) invoked by the caller
CallSelectArea ==
  /\ pc = "idle"
  /\ Fresh
  /\ op' = "select_area"
  /\ ret' = "none"
  /\ pc' = "sa_list"
  /\ stages' = << >>
  /\ UNCHANGED << botVars, max_captcha_retry, TICKET_VALUE, now, open_at, prepare >>

\* ---------------------------------------- CaptchaSolver.solve_with_retry
\* a text of the recognizer: letters and blanks
Chars == { "x", " " }

RawTexts == UNION { [1..k -> Chars] : k \in 0..MaxTextLen }

RECURSIVE LStrip(_)
LStrip(t) == IF t # << >> /\ Head(t) = " " THEN LStrip(Tail(t)) ELSE t

RECURSIVE RStrip(_)
RStrip(t) ==
  IF t # << >> /\ t[Len(t)] = " " THEN RStrip(SubSeq(t, 1, Len(t) - 1)) ELSE t

\* str.strip()
Strip(t) == RStrip(LStrip(t))

\* the length check one character too lenient
TooShortLenient(text) == Len(text) < MIN_CAPTCHA_LEN - 1

\* solve, line 141: if len(captcha_text) < 4: raise
TooShort(text) == Len(text) < MIN_CAPTCHA_LEN

\* for attempt in range(1, self.max_retry + 1): there is an iteration after a
OcrHasNext(a, max) == a + 1 <= max

\* a refresh after the last attempt too
OcrMoreAttemptsInclusive(a, max) == a <= max

\* line 247: if attempt < self.max_retry
OcrMoreAttempts(a, max) == a < max

\* what the steps of solve_with_retry leave alone
SolveFrame ==
  UNCHANGED << start_time, max_captcha_retry, TICKET_VALUE, op, calls, open_at,
               prepare, now, wfx, areaVars, cycleVars, stages, finished,
               acted_after, max_retry, feedbackVars, sessionVars, showVars, form >>

\* CaptchaSolver.set_max_retry, before solve_with_retry is invoked
SetMaxRetry(n) ==
  /\ pc = "idle"
  /\ max_retry # n
  /\ max_retry' = n
  /\ UNCHANGED << botVars, max_captcha_retry, TICKET_VALUE, now, op, pc, calls, ret,
                  open_at, prepare, wfx, areaVars, cycleVars, stages, finished,
                  cause, intrs, acted_after, ocr_attempt, last_error, raw,
                  captcha_text, ocr_fx, feedbackVars, sessionVars, showVars, form >>

\* solve_with_retry is invoked: last_error = None (line 228)
CallSolve ==
  /\ pc = "idle"
  /\ Fresh
  /\ op' = "solve_with_retry"
  /\ ret' = "none"
  /\ pc' = "ocr_loop"
  /\ stages' = << >>
  /\ UNCHANGED << botVars, max_captcha_retry, TICKET_VALUE, now, open_at, prepare >>

\* line 230: the loop takes its next iteration
OcrNext ==
  /\ pc = "ocr_loop"
  /\ OcrHasNext(ocr_attempt, max_retry)
  /\ ocr_attempt' = ocr_attempt + 1
  /\ Goto("ocr_get")
  /\ SolveFrame
  /\ UNCHANGED << last_error, raw, captcha_text, ocr_fx, intrs >>

\* lines 255-257: all iterations failed: raise ... from last_error
OcrExhausted ==
  /\ pc = "ocr_loop"
  /\ ~OcrHasNext(ocr_attempt, max_retry)
  /\ Raise("ocr_failed", "ocr_exhausted", now)
  /\ SolveFrame
  /\ UNCHANGED << ocr_attempt, last_error, raw, captcha_text, ocr_fx, intrs >>

\* a refresh that fails ends solve_with_retry
OcrFailAbortsOnRefreshError(why, f) ==
  /\ last_error' = << ocr_attempt, why >>
  /\ IF OcrMoreAttempts(ocr_attempt, max_retry)
     THEN \/ /\ ocr_fx' = [ f EXCEPT !.refreshes = @ + 1 ]
             /\ Goto("ocr_loop")
             /\ UNCHANGED intrs
          \/ /\ ocr_fx' = [ f EXCEPT !.refreshes = @ + 1, !.refresh_errors = @ + 1 ]
             /\ Raise("ocr_failed", "refresh_failed", now)
             /\ UNCHANGED intrs
     ELSE /\ ocr_fx' = f
          /\ Goto("ocr_loop")
          /\ UNCHANGED intrs

\* the handler records the error and never refreshes
OcrFailSkipsRefresh(why, f) ==
  /\ last_error' = << ocr_attempt, why >>
  /\ ocr_fx' = f
  /\ Goto("ocr_loop")
  /\ UNCHANGED intrs

\* lines 242-253, except Exception as e: last_error = e; when an attempt is
\* left, refresh_captcha inside its own try/except Exception, whose failure
\* is logged and dropped. f: the calls counted so far.
OcrFail(why, f) ==
  /\ last_error' = << ocr_attempt, why >>
  /\ IF OcrMoreAttempts(ocr_attempt, max_retry)
     THEN \/ /\ ocr_fx' = [ f EXCEPT !.refreshes = @ + 1 ]
             /\ Goto("ocr_loop")
             /\ UNCHANGED intrs
          \/ /\ ocr_fx' = [ f EXCEPT !.refreshes = @ + 1, !.refresh_errors = @ + 1 ]
             /\ Goto("ocr_loop")
             /\ UNCHANGED intrs
          \/ /\ ocr_fx' = [ f EXCEPT !.refreshes = @ + 1 ]
             /\ Interrupted
     ELSE /\ ocr_fx' = f
          /\ Goto("ocr_loop")
          /\ UNCHANGED intrs

\* line 235: image_path = self.get_image()
OcrGet ==
  /\ pc = "ocr_get"
  /\ SolveFrame
  /\ UNCHANGED << ocr_attempt, raw, captcha_text >>
  /\ LET f == [ ocr_fx EXCEPT !.gets = @ + 1 ] IN
     \/ /\ ocr_fx' = f
        /\ Goto("ocr_solve")
        /\ UNCHANGED << last_error, intrs >>
     \/ OcrFail("download", f)
     \/ /\ ocr_fx' = f
        /\ Interrupted
        /\ UNCHANGED last_error

\* the recognizer gave text t and solve accepted it: lines 239-240, return;
\* solve_and_fill (captcha_solver.py line 321) goes on to fill_captcha
OcrReturn(t) ==
  /\ captcha_text' = t
  /\ pc' = IF op = "cycle" THEN "cy_fill" ELSE "done"
  /\ ret' = "text"
  /\ cause' = "recognized"
  /\ UNCHANGED << status, error_message, end_time >>

\* line 236: captcha_text = self.solve(image_path): no result, or the first
\* result stripped and checked for its length
OcrSolve ==
  /\ pc = "ocr_solve"
  /\ SolveFrame
  /\ UNCHANGED ocr_attempt
  /\ \/ \E t \in RawTexts :
          /\ raw' = t
          /\ IF TooShort(Strip(t))
             THEN /\ OcrFail("too_short", ocr_fx)
                  /\ UNCHANGED captcha_text
             ELSE /\ OcrReturn(Strip(t))
                  /\ UNCHANGED << last_error, ocr_fx, intrs >>
     \/ /\ raw' = NoText
        /\ OcrFail("no_result", ocr_fx)
        /\ UNCHANGED captcha_text
     \/ /\ Interrupted
        /\ UNCHANGED << raw, captcha_text, last_error, ocr_fx >>

\* ------------------- the feedback check after a submit
\* purchase.handle_captcha_error_alert, line 309
ALERT_WAIT_TIME == 3

\* captcha_solver.py line 288: the message returned with has_error = True
CAPTCHA_ERROR_MSG == "captcha_error"

\* captcha_solver.py line 296: the message when the check itself raised
CHECK_FAILED_MSG == "check_failed"

\* texts the site may put in the alert
DialogTexts == { "captcha_error", "sold_out", "too_fast" }

\* verify_and_handle_error, lines 280-296, from what
\* handle_captcha_error_alert gave: "true", "false", or an Exception
VerifyMessage(h) ==
  CASE h = "true" -> CAPTCHA_ERROR_MSG
    [] h = "false" -> ""
    [] OTHER -> CHECK_FAILED_MSG

VerifyHasError(h) == h # "false"

\* what the steps of the feedback check leave alone
FeedbackFrame ==
  UNCHANGED << start_time, max_captcha_retry, TICKET_VALUE, op, calls, open_at,
               prepare, wfx, areaVars, cycleVars, stages, finished,
               acted_after, solveVars, sessionVars, showVars, form >>

\* CaptchaSolver.verify_and_handle_error is invoked after a submit
CallVerify ==
  /\ pc = "idle"
  /\ Fresh
  /\ op' = "verify_and_handle_error"
  /\ ret' = "none"
  /\ pc' = "fb_wait"
  /\ stages' = << >>
  /\ UNCHANGED << botVars, max_captcha_retry, TICKET_VALUE, now, open_at, prepare >>

\* handle_captcha_error_alert returns h for the reason why, and
\* verify_and_handle_error returns its tuple
FbReturn(h, why) ==
  /\ has_error' = VerifyHasError(h)
  /\ error_msg' = VerifyMessage(h)
  /\ ret' = "tuple"
  /\ pc' = "done"
  /\ cause' = why
  /\ UNCHANGED << status, error_message, end_time, intrs >>

\* lines 312-316: WebDriverWait(driver, ALERT_WAIT_TIME).until(alert_is_present).
\* TimeoutException: return False (lines 332-334); any other Exception:
\* return False (lines 337-339)
FbWait ==
  /\ pc = "fb_wait"
  /\ FeedbackFrame
  /\ UNCHANGED << alert_text, now >>
  /\ \/ \E d \in DialogTexts, w \in 0..ALERT_WAIT_TIME :
          /\ dialog' = d
          /\ fb_fx' = [ fb_fx EXCEPT !.waited = w ]
          /\ Goto("fb_text")
          /\ UNCHANGED << has_error, error_msg, intrs >>
     \/ /\ fb_fx' = [ fb_fx EXCEPT !.waited = ALERT_WAIT_TIME ]
        /\ FbReturn("false", "timeout")
        /\ UNCHANGED dialog
     \/ \E w \in 0..ALERT_WAIT_TIME :
          /\ fb_fx' = [ fb_fx EXCEPT !.waited = w ]
          /\ FbReturn("false", "wait_error")
          /\ UNCHANGED dialog
     \/ /\ Interrupted
        /\ UNCHANGED << dialog, has_error, error_msg, fb_fx >>

\* lines 319-323: alert = driver.switch_to.alert; alert_text = alert.text.
\* NoAlertPresentException of switch_to.alert: return False (lines 335-336);
\* an Exception of alert.text: return False (lines 337-339)
FbText ==
  /\ pc = "fb_text"
  /\ FeedbackFrame
  /\ UNCHANGED << dialog, now >>
  /\ LET f == [ fb_fx EXCEPT !.reads = @ + 1 ] IN
     \/ /\ fb_fx' = f
        /\ alert_text' = dialog
        /\ Goto("fb_accept")
        /\ UNCHANGED << has_error, error_msg, intrs >>
     \/ /\ fb_fx' = fb_fx
        /\ FbReturn("false", "no_alert")
        /\ UNCHANGED alert_text
     \/ /\ fb_fx' = f
        /\ FbReturn("false", "text_error")
        /\ UNCHANGED alert_text
     \/ /\ \E g \in { fb_fx, f } : fb_fx' = g
        /\ Interrupted
        /\ UNCHANGED << alert_text, has_error, error_msg >>

\* lines 326-330: alert.accept(); time.sleep(1); return True. An Exception
\* of accept: return False (lines 335-339)
FbAccept ==
  /\ pc = "fb_accept"
  /\ FeedbackFrame
  /\ UNCHANGED << dialog, alert_text >>
  /\ LET f == [ fb_fx EXCEPT !.accepts = @ + 1 ] IN
     \/ /\ fb_fx' = [ f EXCEPT !.sleeps = @ + 1 ]
        /\ now' = now + ALERT_SLEEP
        /\ FbReturn("true", "dismissed")
     \/ /\ fb_fx' = f
        /\ UNCHANGED now
        /\ \E why \in { "no_alert", "accept_error" } : FbReturn("false", why)
     \/ /\ \E g \in { f, [ f EXCEPT !.sleeps = @ + 1 ] } : fb_fx' = g
        /\ UNCHANGED now
        /\ Interrupted
        /\ UNCHANGED << has_error, error_msg >>

\* ------------------------------------- purchase.select_match_and_buy
\* a button of the show list: the show of its row, and whether
\* get_attribute("data-href") gives a URL
Buttons == [ show : Shows, href : BOOLEAN ]

\* the show lists tried: up to MaxShows buttons
GameLists == UNION { [ 1..k -> Buttons ] : k \in 0..MaxShows }

\* lines 45-52: the index of the first button whose ticket_url is not empty,
\* NoMatch when there is none
FirstWithUrl(list) ==
  IF \E i \in 1..Len(list) : list[i].href
  THEN CHOOSE i \in 1..Len(list) :
         list[i].href /\ \A j \in 1..(i - 1) : ~list[j].href
  ELSE NoMatch

\* what the steps of select_match_and_buy leave alone
ShowFrame ==
  UNCHANGED << start_time, max_captcha_retry, TICKET_VALUE, op, calls, open_at,
               prepare, now, wfx, areaVars, cycleVars, stages, finished,
               acted_after, solveVars, feedbackVars, sessionVars, form >>

\* purchase.select_match_and_buy(driver) is invoked
CallSelectMatch ==
  /\ pc = "idle"
  /\ Fresh
  /\ op' = "select_match_and_buy"
  /\ ret' = "none"
  /\ pc' = "sm_wait"
  /\ stages' = << >>
  /\ UNCHANGED << botVars, max_captcha_retry, TICKET_VALUE, now, open_at, prepare >>

\* lines 34-42: wait for "#gameList table", then find_elements gives the
\* buttons; a timeout is re-raised by the handler of lines 57-59
MatchWait ==
  /\ pc = "sm_wait"
  /\ ShowFrame
  /\ UNCHANGED opened
  /\ \/ /\ \E list \in GameLists : game_list' = list
        /\ Goto("sm_scan")
        /\ UNCHANGED intrs
     \/ /\ Raise("select_show_failed", "fault", now)
        /\ UNCHANGED << game_list, intrs >>
     \/ /\ Interrupted
        /\ UNCHANGED game_list

\* lines 44-57: button.get_attribute("data-href") is called for the buttons
\* in turn; the first button with a URL is opened with driver.get and True is
\* returned; without such a button the function raises (line 55). An
\* Exception of get_attribute or driver.get is wrapped by line 57, a
\* KeyboardInterrupt leaves the function; an empty list has no call that
\* could raise.
MatchScan ==
  /\ pc = "sm_scan"
  /\ ShowFrame
  /\ UNCHANGED game_list
  /\ LET i == FirstWithUrl(game_list) IN
     \/ /\ i # NoMatch
        /\ opened' = game_list[i].show
        /\ pc' = "done"
        /\ ret' = "true"
        /\ cause' = "opened"
        /\ UNCHANGED << status, error_message, end_time, intrs >>
     \/ /\ i = NoMatch
        /\ Raise("select_show_failed", "no_button", now)
        /\ UNCHANGED << opened, intrs >>
     \/ /\ game_list # << >>
        /\ Raise("select_show_failed", "fault", now)
        /\ UNCHANGED << opened, intrs >>
     \/ /\ game_list # << >>
        /\ Interrupted
        /\ UNCHANGED opened

\* ------------------------------ the setters of the purchase session
\* `if x:` of set_target: None and the empty string leave the field alone
Given(x) == x # NoArg /\ x # ""

\* the ticket counts a caller may pass, written as config.TICKET_VALUE is
TicketCounts == { Str(n) : n \in 1..MaxTickets }

\* what the setters leave alone
SessionFrame ==
  UNCHANGED << botVars, max_captcha_retry, TICKET_VALUE, now, op, pc, calls, ret,
               open_at, prepare, wfx, areaVars, cycleVars, stages, finished,
               cause, intrs, acted_after, solveVars, feedbackVars, showVars, form >>

\* ------------------------------------------------ purchase.select_tickets
\* the values of the options of the quantity list: "0" and the quantities
\* 1..MaxOffered; the list of the site always offers "0"
Quantities == { Str(n) : n \in 1..MaxOffered }

\* select_tickets on its own is explored on every list; one cycle of the
\* retry loop on the full list
Offers ==
  IF op = "select_tickets"
  THEN { q \cup { "0" } : q \in SUBSET Quantities }
  ELSE { Quantities \cup { "0" } }

\* max(numeric_options)
MaxOf(nums) == CHOOSE m \in nums : \A x \in nums : x <= m

\* min in place of max
QuantityChoiceSmallest(options, want) ==
  IF want \in options THEN want
  ELSE LET numeric_options == { ToInt(opt) : opt \in { x \in options : IsDigits(x) } }
           positive == numeric_options \ { 0 }
       IN IF positive # {}
          THEN Str(CHOOSE m \in positive : \A x \in positive : m <= x)
          ELSE "0"

\* lines 232-245: the value given to select_by_value: config.TICKET_VALUE
\* when it is among the options, else the largest numeric option when it is
\* positive, else "0"
QuantityChoice(options, want) ==
  IF want \in options THEN want
  ELSE LET numeric_options == { ToInt(opt) : opt \in { x \in options : IsDigits(x) } }
           max_available == IF numeric_options # {} THEN MaxOf(numeric_options) ELSE 0
       IN IF max_available > 0 THEN Str(max_available) ELSE "0"

\* what the steps on the ticket form leave alone
FormFrame ==
  UNCHANGED << start_time, max_captcha_retry, TICKET_VALUE, op, calls, open_at,
               prepare, wfx, areaVars, cycleVars, stages, finished,
               acted_after, solveVars, feedbackVars, sessionVars, showVars >>

\* purchase.select_tickets(driver) is invoked
CallSelectTickets ==
  /\ pc = "idle"
  /\ Fresh
  /\ op' = "select_tickets"
  /\ ret' = "none"
  /\ pc' = "tk_select"
  /\ stages' = << >>
  /\ UNCHANGED << botVars, max_captcha_retry, TICKET_VALUE, now, open_at, prepare >>

\* lines 203-245: wait for the price list, take the first ticket type, read
\* the values of its options and select one; select_by_value raises when the
\* value is not among the options. Every Exception is re-raised by the
\* handler of lines 263-265.
TkSelect ==
  /\ pc = "tk_select"
  /\ FormFrame
  /\ UNCHANGED now
  /\ \/ \E options \in Offers :
          LET value == QuantityChoice(options, TICKET_VALUE) IN
          IF value \in options
          THEN /\ form' = [ form EXCEPT !.offered = options, !.selected = value ]
               /\ Goto("tk_agree")
               /\ UNCHANGED intrs
          ELSE /\ form' = [ form EXCEPT !.offered = options ]
               /\ Raise("select_tickets_failed", "not_offered", now)
               /\ UNCHANGED intrs
     \/ /\ Raise("select_tickets_failed", "fault", now)
        /\ UNCHANGED << form, intrs >>
     \/ /\ Interrupted
        /\ UNCHANGED form

\* lines 252-261: the terms checkbox is ticked, return True; in a cycle of
\* the retry loop solve_and_fill comes next (ticket_bot.py line 322)
TkAgree ==
  /\ pc = "tk_agree"
  /\ FormFrame
  /\ UNCHANGED << now, form >>
  /\ \/ /\ pc' = IF op = "cycle" THEN "ocr_loop" ELSE "done"
        /\ ret' = IF op = "cycle" THEN ret ELSE "true"
        /\ cause' = IF op = "cycle" THEN cause ELSE "selected"
        /\ UNCHANGED << status, error_message, end_time, intrs >>
     \/ /\ Raise("select_tickets_failed", "fault", now)
        /\ UNCHANGED intrs
     \/ Interrupted

\* ------------------ one iteration of _handle_captcha_with_retry, up to
\* the submit
\* input_elem.send_keys leaves the input untouched
SendKeysNothing(typed, text) == typed

\* captcha.fill_captcha, line 176: input_elem.send_keys(captcha_text)
SendKeys(typed, text) == Append(typed, text)

\* lines 316-319: the body of the loop starts with select_ticket_count
CallCycle ==
  /\ pc = "idle"
  /\ Fresh
  /\ op' = "cycle"
  /\ ret' = "none"
  /\ pc' = "tk_select"
  /\ stages' = << >>
  /\ UNCHANGED << botVars, max_captcha_retry, TICKET_VALUE, now, open_at, prepare >>

\* solve_and_fill, captcha_solver.py line 321: fill_captcha types the text
\* solve_with_retry returned (captcha.py lines 174-176); a failure of
\* find_element, clear or send_keys is re-raised
CyFill ==
  /\ pc = "cy_fill"
  /\ FormFrame
  /\ UNCHANGED now
  /\ \/ /\ form' = [ form EXCEPT !.typed = SendKeys(@, captcha_text) ]
        /\ Goto("cy_submit")
        /\ UNCHANGED intrs
     \/ /\ \E f \in { form, [ form EXCEPT !.typed = SendKeys(@, captcha_text) ] } :
             form' = f
        /\ \/ /\ Raise("captcha_failed", "fault", now)
              /\ UNCHANGED intrs
           \/ Interrupted

\* ticket_bot.py line 326, purchase.submit_booking (lines 282-293): wait for
\* the button, click it, time.sleep(1)
CySubmit ==
  /\ pc = "cy_submit"
  /\ FormFrame
  /\ \/ /\ form' = [ form EXCEPT !.submits = @ + 1 ]
        /\ now' = now + SUBMIT_SLEEP
        /\ pc' = "done"
        /\ ret' = "submitted"
        /\ cause' = "submitted"
        /\ UNCHANGED << status, error_message, end_time, intrs >>
     \/ /\ Raise("submit_failed", "fault", now)
        /\ UNCHANGED << form, now, intrs >>
     \/ /\ \E f \in { form, [ form EXCEPT !.submits = @ + 1 ] } : form' = f
        /\ Interrupted
        /\ UNCHANGED now

\* TicketBot.set_target(show_id, area, count), lines 140-160: each argument
\* given is stored, then Selector.update_target receives all three fields
SetTarget(show_id, area, count) ==
  /\ pc = "idle"
  /\ SessionFrame
  /\ target_show' = IF Given(show_id) THEN show_id ELSE target_show
  /\ target_area' = IF Given(area) THEN area ELSE target_area
  /\ ticket_count' = IF Given(count) THEN count ELSE ticket_count
  /\ sel_target' = [ date |-> target_show', area |-> target_area',
                     count |-> ticket_count' ]

\* Selector.update_target(**kwargs), selector.py lines 294-307: every key
\* present is stored; NoArg stands for a key that is absent
UpdateTarget(target_date, area, count) ==
  /\ pc = "idle"
  /\ SessionFrame
  /\ UNCHANGED << target_show, target_area, ticket_count >>
  /\ sel_target' = [ date |-> IF target_date # NoArg THEN target_date ELSE sel_target.date,
                     area |-> IF area # NoArg THEN area ELSE sel_target.area,
                     count |-> IF count # NoArg THEN count ELSE sel_target.count ]

\* ------------------------------------------------------- specifications
SelectAreaStep ==
  AreaList \/ AreaNext \/ AreaRead \/ AreaNavigate \/ AreaProbe \/ AreaExhausted

WaitStep == WaitEnter \/ WaitLong \/ WaitPoll

CycleStep == CycleTickets \/ CycleSolve \/ CycleSubmit \/ CycleVerify

\* one TicketBot and its callers; start_booking is run with prepare_minutes
\* 0 (the ready time is the start time), wait_until_start_time with every
\* value of PrepareMinutes
Next ==
  \/ \E st \in OpenTimes : StartBooking(st, 0)
  \/ \E st \in OpenTimes, prep \in PrepareMinutes : CallWait(st, prep)
  \/ LoadLoginSession
  \/ WaitStep
  \/ NavigateToBuyPage
  \/ SelectShow
  \/ SelectAreaStep
  \/ CycleStep

\* runs of the whole bot are explored with config.TICKET_VALUE as the
\* repository sets it: the labels of their pages carry no count
InitRun == InitBot /\ TICKET_VALUE = TICKET_DEFAULT

Spec == InitRun /\ [][Next]_vars

\* the calls a driver script makes on one TicketBot, in any order, started
\* at once (no start time)
NextRuns ==
  \/ StartBooking(NoTime, 0)
  \/ LoadLoginSession
  \/ Reset
  \/ Elapse
  \/ NavigateToBuyPage
  \/ SelectShow
  \/ SelectAreaStep
  \/ CycleStep

SpecRuns == InitBot /\ [][NextRuns]_vars

\* purchase.select_area on its own
NextArea == CallSelectArea \/ SelectAreaStep

\* no TicketBot takes part: max_captcha_retry is left at one value
InitArea == InitBot /\ max_captcha_retry = MaxRetry

SpecArea == InitArea /\ [][NextArea]_vars

\* CaptchaSolver.solve_with_retry on its own
SolveStep == OcrNext \/ OcrExhausted \/ OcrGet \/ OcrSolve

NextSolve ==
  \/ \E n \in 0..MaxOcrRetry : SetMaxRetry(n)
  \/ CallSolve
  \/ SolveStep

SpecSolve == InitBot /\ [][NextSolve]_vars

\* purchase.select_match_and_buy on its own
NextShow == CallSelectMatch \/ MatchWait \/ MatchScan

SpecShow == InitBot /\ [][NextShow]_vars

\* the setters offered by TicketBot and its collaborators
NextSession ==
  \/ \E sh \in Shows \cup { NoArg }, ar \in TargetAreas \cup { NoArg, "" },
        n \in TicketCounts \cup { NoArg } : SetTarget(sh, ar, n)
  \/ \E sh \in Shows \cup { NoArg }, ar \in TargetAreas \cup { NoArg, "" },
        n \in TicketCounts \cup { NoArg } : UpdateTarget(sh, ar, n)
  \/ \E n \in 0..MaxOcrRetry : SetMaxRetry(n)

SpecSession == InitBot /\ [][NextSession]_vars

\* set_target(count=n) on a new TicketBot, then purchase.select_area
NextTarget ==
  \/ \E n \in TicketCounts : SetTarget(NoArg, NoArg, n)
  \/ CallSelectArea
  \/ SelectAreaStep

SpecTarget == InitBot /\ [][NextTarget]_vars

\* purchase.select_tickets on its own
NextTickets == CallSelectTickets \/ TkSelect \/ TkAgree

SpecTickets == InitBot /\ [][NextTickets]_vars

\* one iteration of the retry loop up to its submit
NextCycle ==
  \/ CallCycle
  \/ TkSelect
  \/ TkAgree
  \/ SolveStep
  \/ CyFill
  \/ CySubmit

SpecCycle == InitBot /\ [][NextCycle]_vars

\* the feedback check on its own
FeedbackStep == FbWait \/ FbText \/ FbAccept

NextFeedback == CallVerify \/ FeedbackStep

SpecFeedback == InitBot /\ [][NextFeedback]_vars

\* TicketBot.wait_until_start_time on its own, far start times included
FarOpenTimes == OpenTimes \cup { MaxFar }

NextWait ==
  \/ \E st \in FarOpenTimes, prep \in PrepareMinutes : CallWait(st, prep)
  \/ WaitStep

SpecWait == InitBot /\ [][NextWait]_vars

\* time.sleep(s) returns after exactly s seconds (or is interrupted at once)
ExactSleep ==
  \/ now' = now
  \/ /\ wfx'.long = wfx.long + 1
     /\ now' = now + wfx'.long_secs
  \/ /\ wfx'.coarse + wfx'.fine = wfx.coarse + wfx.fine + 1
     /\ now' = now + wfx'.poll_secs

\* wait_until_start_time on a clock on which every sleep is exact
NextWaitExact ==
  \/ \E st \in FarOpenTimes, prep \in PrepareMinutes : CallWait(st, prep)
  \/ WaitEnter
  \/ WaitLong /\ ExactSleep
  \/ WaitPoll /\ ExactSleep

SpecWaitExact == InitBot /\ [][NextWaitExact]_vars

\* a call that is not interrupted goes on: every sleep returns, the refresh
\* returns or raises
SpecWaitFair == SpecWait /\ WF_vars(WaitStep /\ intrs' = intrs)

\* ================================================================ claims
\* position of a status in the listed order; the three terminal statuses
\* share the last position
Rank(s) ==
  IF s \in Terminal THEN 10
  ELSE CHOOSE i \in 1..9 : StatusOrder[i] = s

Last(q) == q[Len(q)]

IsPrefix(p, q) == Len(p) <= Len(q) /\ \A i \in 1..Len(p) : p[i] = q[i]

BookingDone == op = "start_booking" /\ pc = "done"

\* C1: every change of the status moves forward in the listed order; the only
\* backward step is SUBMITTING to SELECTING_TICKETS.
C1_StatusOnlyForward ==
  [][ status' # status =>
        \/ Rank(status') > Rank(status)
        \/ (status = "SUBMITTING" /\ status' = "SELECTING_TICKETS") ]_vars

\* C1: load_login_session has left the status LOGGING_IN and start_booking,
\* called with a start time, is about to set WAITING.
C1_BookingAfterLogin ==
  /\ op = "start_booking"
  /\ pc = "wait_enter"
  /\ open_at # NoTime
  /\ status = "LOGGING_IN"

StageOrder == << "wait", "navigate", "select_show", "select_area", "cycle" >>

\* s is a run of consecutive stages that begins with the wait or, when no
\* start time was given, with the navigation
IsStageRun(s) ==
  /\ Len(s) >= 1
  /\ \E k \in 1..2 :
       /\ k + Len(s) - 1 <= Len(StageOrder)
       /\ \A i \in 1..Len(s) : s[i] = StageOrder[k + i - 1]

\* C2: start_booking starts its stages in the order wait, navigate, select
\* show, select area, cycle; every stage but the one running has returned
\* without raising; and the run ends SUCCESS only when all five stages
\* returned and the cycle reported an accepted submission.
C2_StagesInOrder ==
  op = "start_booking" =>
    /\ IsStageRun(stages)
    /\ (stages[1] = "wait") = (open_at # NoTime)
    /\ IsPrefix(finished, stages)
    /\ Len(finished) >= Len(stages) - 1
    /\ (pc = "done" /\ status = "SUCCESS") =>
         /\ finished = stages
         /\ Last(stages) = "cycle"
         /\ cyc # << >> /\ Last(cyc) = "accepted"
         /\ ret = "true"
    /\ (pc = "done" /\ finished = stages) => status = "SUCCESS"

\* C2: a run that waited, went through all five stages and ended SUCCESS
C2_AllStagesSuccess ==
  /\ BookingDone
  /\ status = "SUCCESS"
  /\ stages = StageOrder
  /\ finished = StageOrder

Exhaustions == { "area_exhausted", "ocr_exhausted", "submit_exhausted" }

\* C3: a run of start_booking that stops on an exhausted budget (no area
\* candidate, recognition, submission cycles) ends FAILED, and a run ends
\* ERROR only on an unexpected fault.
C3_ExhaustionEndsFailed ==
  BookingDone =>
    /\ cause \in Exhaustions => status = "FAILED"
    /\ status = "ERROR" => cause = "fault"

\* C3: every area candidate was evaluated, none succeeded, and the run ended
\* ERROR
C3_AreaExhaustedIsError ==
  /\ BookingDone
  /\ cause = "area_exhausted"
  /\ n_areas >= 1
  /\ ai = n_areas
  /\ status = "ERROR"
  /\ error_message = "select_area_failed"

\* C4: once a KeyboardInterrupt was raised in a run of start_booking, no
\* further candidate or cycle step is worked on, and the run ends FAILED with
\* the user-interrupt message.
C4_InterruptEndsRun ==
  (op = "start_booking" /\ intrs > 0) =>
    /\ ~acted_after
    /\ pc = "done" => (status = "FAILED" /\ error_message = "user_interrupt")

\* C4: a KeyboardInterrupt was raised and the run ended SUCCESS
C4_SuccessAfterInterrupt ==
  /\ BookingDone
  /\ intrs > 0
  /\ acted_after
  /\ status = "SUCCESS"

\* C5: when start_booking has returned, start_time and an end_time of the
\* same run are recorded.
C5_EndTimeRecorded ==
  BookingDone =>
    /\ start_time # NoTime
    /\ end_time # NoTime
    /\ end_time >= start_time

\* C5: the run ended FAILED and no end_time is recorded
C5_FailedWithoutEndTime ==
  /\ BookingDone
  /\ status = "FAILED"
  /\ start_time # NoTime
  /\ end_time = NoTime

CycleSteps == << "select_tickets", "solve_and_fill", "submit" >>

\* the steps of one cycle so far: ticket selection, recognition, submission
\* and the verdict, in this order
IsCycle(c) ==
  \/ IsPrefix(c, CycleSteps)
  \/ \E v \in { "accepted", "rejected" } : c = Append(CycleSteps, v)

\* C6: at most max_captcha_retry cycles are started; a cycle runs ticket
\* selection, recognition, submission, verdict in this order; after a rejected
\* verdict the next cycle is the next one in number and starts with ticket
\* selection; an accepted verdict ends the run SUCCESS at once; and a run that
\* used the bound up without an accepted verdict fails and is never SUCCESS.
C6_CyclesBounded ==
  op = "start_booking" =>
    /\ attempt <= max_captcha_retry
    /\ IsCycle(cyc)
    /\ (pc \in { "cycle_tickets", "cycle_solve", "cycle_submit", "cycle_verify" })
         => attempt >= 1
    /\ (cyc # << >> /\ Last(cyc) = "accepted") =>
         (pc = "done" /\ status = "SUCCESS" /\ ret = "true")
    /\ (cyc # << >> /\ Last(cyc) = "rejected") =>
         \/ pc = "cycle_tickets" /\ attempt >= 2
         \/ /\ pc = "done" /\ attempt = max_captcha_retry
            /\ cause = "submit_exhausted" /\ status # "SUCCESS" /\ ret = "false"
    /\ cause = "submit_exhausted" =>
         (pc = "done" /\ status # "SUCCESS" /\ ret = "false"
            /\ attempt = max_captcha_retry)

\* C6: the last allowed cycle, not the first, was rejected and the run failed
C6_RejectedUntilExhausted ==
  /\ BookingDone
  /\ cause = "submit_exhausted"
  /\ attempt = max_captcha_retry
  /\ attempt >= 2
  /\ cyc = Append(CycleSteps, "rejected")

\* the candidate of the current iteration was attempted: its URL is looked up
\* next, or a browser call was issued for it
Attempted == pc \in { "sa_nav", "sa_probe" } \/ fx # << >>

\* C7: select_area takes the candidates one by one in displayed order, each
\* once; it returns True exactly in the step in which the probe of an
\* attempted candidate finds the captcha image; and after that nothing more is
\* looked up, navigated to or clicked.
C7_FirstEligibleWins ==
  [][ /\ ai' # ai => (pc = "sa_loop" /\ ai' = ai + 1 /\ ai' <= n_areas)
      /\ (pc = "sa_loop" /\ pc' = "sa_read") => ai' = ai + 1
      /\ Contains(fx', "found") => (ret' = "true" /\ pc' = "done")
      /\ (ret' = "true" /\ ret # "true") =>
           /\ pc = "sa_probe"
           /\ named /\ Classify(area_name, ToInt(TICKET_VALUE)) = "attempt"
           /\ fx' = Append(fx, "found")
           /\ UNCHANGED << ai, area_name >>
      /\ ret = "true" => UNCHANGED << ai, area_name, fx, pc >> ]_vars

\* C7: the first of two candidates showed the captcha image; the second was
\* never evaluated
C7_FirstOfTwoWins ==
  /\ op = "select_area"
  /\ ret = "true"
  /\ n_areas = 2
  /\ ai = 1
  /\ fx = << "lookup", "get", "found" >>

\* C8: for a candidate whose label carries the sold-out marker no URL lookup,
\* no navigation, no click and no navigate-back is issued, whatever else the
\* label contains.
C8_SoldOutUntouched ==
  (op = "select_area" /\ named /\ Contains(area_name, "sold_out")) =>
    (fx = << >> /\ pc \notin { "sa_nav", "sa_probe" })

\* C8: a label with the sold-out and the hot-selling marker was read and
\* passed over
C8_SoldOutAndHotSkipped ==
  /\ op = "select_area"
  /\ named
  /\ Contains(area_name, "sold_out")
  /\ Contains(area_name, "hot_selling")
  /\ pc = "sa_loop"

\* C9: a candidate labelled remaining N (and not sold out) is attempted if
\* and only if N >= the required ticket count.
C9_RemainingThreshold ==
  ( /\ op = "select_area"
    /\ named
    /\ ~Contains(area_name, "sold_out")
    /\ RemainMatch(area_name) # NoMatch ) =>
      (Attempted <=> RemainMatch(area_name) >= ToInt(TICKET_VALUE))

\* C9: remaining N with N equal to a required count of at least two was
\* attempted
C9_ExactCountAttempted ==
  /\ op = "select_area"
  /\ named
  /\ ToInt(TICKET_VALUE) >= 2
  /\ area_name = << "remaining", TICKET_VALUE >>
  /\ fx # << >>

MarkerOrder == << "sold_out", "remaining", "hot_selling" >>

\* the first marker, in the fixed order, that the label contains
FirstMarker(label) ==
  LET present == { i \in 1..Len(MarkerOrder) : Contains(label, MarkerOrder[i]) }
  IN IF present = {} THEN "unknown"
     ELSE MarkerOrder[CHOOSE i \in present : \A j \in present : i <= j]

\* C10: a label is classified by the first marker it contains in the order
\* sold-out, remaining, hot-selling: sold-out is passed over; remaining N with
\* N below the required count is passed over even when the label also says
\* hot-selling; hot-selling is attempted; a label with none of the markers is
\* passed over. (A remaining marker without a count is the subject of C36.)
C10_FirstMarkerDecides ==
  (op = "select_area" /\ named) =>
    LET m == FirstMarker(area_name) IN
    /\ m = "sold_out" => ~Attempted
    /\ ( /\ m = "remaining"
         /\ RemainMatch(area_name) # NoMatch
         /\ RemainMatch(area_name) < ToInt(TICKET_VALUE) ) => ~Attempted
    /\ m = "hot_selling" => Attempted
    /\ m = "unknown" => ~Attempted

\* C10: a label that says remaining N, N too small, and hot-selling was
\* passed over
C10_RemainingBeforeHot ==
  /\ op = "select_area"
  /\ named
  /\ FirstMarker(area_name) = "remaining"
  /\ Contains(area_name, "hot_selling")
  /\ RemainMatch(area_name) # NoMatch
  /\ RemainMatch(area_name) < ToInt(TICKET_VALUE)
  /\ pc = "sa_loop"
  /\ fx = << >>

AreaDone == op = "select_area" /\ pc = "done"

\* C11: select_area returns True only when a probe found the captcha image;
\* when none did (every candidate passed over, every attempt failed, or the
\* candidate list empty) it ends by raising, the loop having gone through
\* all candidates. (A KeyboardInterrupt that leaves select_area is not a
\* result of select_area.)
C11_NoWinnerRaises ==
  AreaDone =>
    /\ (ret = "true") = Contains(fx, "found")
    /\ (~Contains(fx, "found") /\ ret # "intr") =>
         /\ ret = "raise"
         /\ cause \in { "area_exhausted", "fault" }
         /\ cause = "area_exhausted" => ai = n_areas

\* C11: two candidates, the second says remaining N with N below the required
\* count; both were passed over and select_area raised
C11_AllPassedOver ==
  /\ AreaDone
  /\ ret = "raise"
  /\ n_areas = 2 /\ ai = 2
  /\ named
  /\ RemainMatch(area_name) # NoMatch
  /\ RemainMatch(area_name) < ToInt(TICKET_VALUE)
  /\ fx = << >>

\* C12: an Exception raised while a candidate is processed never ends
\* select_area: once the candidate list was found, select_area raises only
\* after the last candidate was evaluated, and a step that works on a
\* candidate leaves select_area only by returning True (or by a
\* KeyboardInterrupt).
C12_CandidateFaultIsolated ==
  [][ /\ (pc \in { "sa_read", "sa_nav", "sa_probe" } /\ pc' = "done")
          => ret' \in { "true", "intr" }
      /\ (pc \in { "sa_read", "sa_nav", "sa_probe" } /\ pc' # "done" /\ pc' # pc)
          => pc' \in { "sa_loop", "sa_nav", "sa_probe" }
      /\ (op = "select_area" /\ ret' = "raise" /\ n_areas >= 1)
          => (pc = "sa_loop" /\ ai = n_areas) ]_vars

\* C12: reading the first of two candidates raised; the handler ran and the
\* loop stands before the second candidate
C12_ReadFaultThenNext ==
  /\ op = "select_area"
  /\ pc = "sa_loop"
  /\ n_areas = 2 /\ ai = 1
  /\ ~named
  /\ fx = << "back", "sleep" >>

SolveRuns == op = "solve_with_retry"

\* C13: the text solve_with_retry returns has at least 4 characters; it is
\* the recognizer's text of the last attempt, stripped.
C13_NoShortText ==
  (SolveRuns /\ ret = "text") =>
    /\ Len(captcha_text) >= 4
    /\ captcha_text = Strip(raw)

\* C13: a text of 4 characters was returned, cut out of a longer text with
\* blanks around it
C13_FourAfterStrip ==
  /\ SolveRuns
  /\ ret = "text"
  /\ Len(captcha_text) = 4
  /\ Len(raw) > 4

\* C14: with max_retry = R >= 1, when solve_with_retry raises it has made
\* exactly R attempts with R acquisitions and R - 1 refresh calls, one after
\* every failed attempt but the last, and last_error is the error of attempt R.
C14_ExhaustedAfterR ==
  (SolveRuns /\ max_retry >= 1) =>
    /\ (pc = "ocr_loop" /\ ocr_attempt >= 1) =>
         /\ last_error[1] = ocr_attempt
         /\ ocr_fx.refreshes =
              IF ocr_attempt < max_retry THEN ocr_attempt ELSE max_retry - 1
    /\ ret = "raise" =>
         /\ ocr_attempt = max_retry
         /\ ocr_fx.gets = max_retry
         /\ ocr_fx.refreshes = max_retry - 1
         /\ last_error[1] = max_retry

\* C14: max_retry = 3, the recognizer gave a 3-character text in the last
\* attempt, and solve_with_retry raised after 3 attempts and 2 refreshes
C14_ThreeShortTexts ==
  /\ SolveRuns
  /\ ret = "raise"
  /\ max_retry = 3
  /\ Len(raw) = 3 /\ Strip(raw) = raw
  /\ last_error = << 3, "too_short" >>
  /\ ocr_fx = [ gets |-> 3, refreshes |-> 2, refresh_errors |-> 0 ]

\* C15: when solve_with_retry returns a text at attempt k, k <= max_retry,
\* every earlier attempt failed, and k acquisitions and k - 1 refresh calls
\* were made; the run has ended.
C15_ReturnsAtFirstPass ==
  (SolveRuns /\ ret = "text") =>
    /\ pc = "done"
    /\ 1 <= ocr_attempt /\ ocr_attempt <= max_retry
    /\ ~TooShort(captcha_text)
    /\ ocr_fx.gets = ocr_attempt
    /\ ocr_fx.refreshes = ocr_attempt - 1
    /\ last_error[1] = ocr_attempt - 1

\* C15: max_retry = 3, the first text was too short, the second is xxxx and
\* is returned after exactly one refresh
C15_SecondTextReturned ==
  /\ SolveRuns
  /\ ret = "text"
  /\ max_retry = 3
  /\ ocr_attempt = 2
  /\ captcha_text = << "x", "x", "x", "x" >>
  /\ last_error = << 1, "too_short" >>
  /\ ocr_fx = [ gets |-> 2, refreshes |-> 1, refresh_errors |-> 0 ]

FeedbackDone == op = "verify_and_handle_error" /\ ret = "tuple"

\* C16: the feedback check reports accepted when no dialog appeared within
\* the timeout; when one appeared it reports rejected, has read the dialog's
\* text, and the message it returns is that text.
C16_RejectedWithDialogText ==
  FeedbackDone =>
    /\ dialog = NoDialog => ~has_error
    /\ dialog # NoDialog =>
         /\ has_error
         /\ alert_text = dialog
         /\ error_msg = dialog

\* C16: the dialog said sold_out and was dismissed; the check reports
\* rejected with the fixed message
C16_FixedMessageReturned ==
  /\ FeedbackDone
  /\ dialog = "sold_out"
  /\ alert_text = "sold_out"
  /\ has_error
  /\ error_msg = CAPTCHA_ERROR_MSG

\* C17: a feedback check that reports rejected has called dismiss exactly
\* once, and one that reports accepted has not called it.
C17_DismissOnlyWhenRejected ==
  FeedbackDone =>
    /\ has_error => fb_fx.accepts = 1
    /\ ~has_error => fb_fx.accepts = 0

\* C17: the dialog was read, dismiss was called and failed, and the check
\* reports accepted
C17_AcceptedAfterDismiss ==
  /\ FeedbackDone
  /\ ~has_error
  /\ dialog # NoDialog
  /\ alert_text = dialog
  /\ fb_fx.accepts = 1
  /\ cause = "accept_error"

WaitConfigured == op = "wait_until_start_time" /\ open_at # NoTime

\* C18: with a start time, one call of wait_until_start_time refreshes at
\* most once, the refresh ends the call and is issued only when
\* open_at - now <= 0, and a call that returns has refreshed once.
C18_OneRefreshWhenOpen ==
  WaitConfigured =>
    /\ wfx.refresh <= 1
    /\ wfx.refresh = 1 => (pc = "done" /\ open_at - now <= 0)
    /\ (pc = "done" /\ cause = "none") => wfx.refresh = 1

\* C18: the call polled while the sale was closed, coarse and fine, then
\* refreshed once and returned
C18_RefreshAfterPolling ==
  /\ WaitConfigured
  /\ pc = "done" /\ cause = "none"
  /\ wfx.coarse >= 1 /\ wfx.fine >= 1
  /\ wfx.refresh = 1

\* C19: the long sleep is taken exactly when now < open_at - lead time at
\* entry; it is the first call issued, is issued once, for ready_at - now
\* seconds, and the polling loop never goes back to it. With open_at not
\* after now at entry the call issues no sleep and one refresh.
C19_LongSleepBeforeReady ==
  [][ WaitConfigured =>
        LET ready_at == open_at - prepare * MINUTE IN
        /\ pc = "wait_enter" =>
             /\ wfx' = NoWait
             /\ pc' = IF now < ready_at THEN "wait_long" ELSE "wait_poll"
        /\ pc = "wait_long" =>
             /\ wfx = NoWait
             /\ wfx' = [ NoWait EXCEPT !.long = 1, !.long_secs = ready_at - now ]
             /\ pc' \in { "wait_poll", "done" }
        /\ pc = "wait_poll" =>
             /\ wfx'.long = wfx.long
             /\ wfx'.long_secs = wfx.long_secs
             /\ pc' # "wait_long"
        /\ (pc = "wait_poll" /\ wfx = NoWait /\ open_at <= now) =>
             /\ wfx' = [ NoWait EXCEPT !.refresh = 1 ]
             /\ pc' = "done"
    ]_vars

\* C19: the long sleep was taken first, for a positive number of seconds,
\* and the call is now in its polling loop
C19_LongSleepTaken ==
  /\ WaitConfigured
  /\ pc = "wait_poll"
  /\ wfx = [ NoWait EXCEPT !.long = 1, !.long_secs = open_at - prepare * MINUTE ]
  /\ wfx.long_secs > 0

\* C20: in a run without a start time no sleep is issued, the polling loop
\* is not entered, the status does not become WAITING, start_booking skips
\* the wait, and wait_until_start_time ends in its first step.
C20_NoStartTimeNoWait ==
  [][ (op' \in { "start_booking", "wait_until_start_time" } /\ open_at' = NoTime) =>
        /\ status' = "WAITING" => status = "WAITING"
        /\ wfx'.long = 0 /\ wfx'.coarse = 0 /\ wfx'.fine = 0
        /\ pc' \notin { "wait_long", "wait_poll" }
        /\ op' = "start_booking" => (pc' # "wait_enter" /\ wfx' = NoWait)
        /\ (pc = "wait_enter" /\ op = op') => (pc' = "done" /\ now' = now)
    ]_vars

\* C20: after the login, wait_until_start_time without a start time has
\* returned: one refresh, no sleep, status as before
C20_ReturnedAtOnce ==
  /\ op = "wait_until_start_time"
  /\ open_at = NoTime
  /\ pc = "done" /\ cause = "none"
  /\ wfx = [ NoWait EXCEPT !.refresh = 1 ]
  /\ status = "LOGGING_IN"

\* C21: when the submit of a cycle is answered without an error after the
\* submits of all earlier cycles were rejected (with a bound of 2: rejected,
\* then accepted), start_booking ends SUCCESS, returns true, and the report
\* has duration_seconds >= 0.
C21_RejectedThenAccepted ==
  ( /\ op = "start_booking"
    /\ attempt >= 1
    /\ rejections = attempt - 1
    /\ cyc # << >> /\ Last(cyc) = "accepted" ) =>
    /\ pc = "done"
    /\ status = "SUCCESS"
    /\ ret = "true"
    /\ ReportHasDuration
    /\ DurationSeconds >= 0

\* C21: bound 2, first submit rejected, second accepted; two submits, each
\* followed by its one-second sleep, and one dismissed alert, followed by
\* its one-second sleep, have been made
C21_SecondSubmitAccepted ==
  /\ op = "start_booking"
  /\ max_captcha_retry = 2
  /\ attempt = 2
  /\ rejections = 1
  /\ Last(cyc) = "accepted"
  /\ status = "SUCCESS"
  /\ DurationSeconds >= 2 * SUBMIT_SLEEP + ALERT_SLEEP

\* the stage an error message names; the interrupt message names none
StageOfMessage(m) ==
  CASE m = "refresh_failed" -> "wait"
    [] m = "cannot_enter_buy_page" -> "navigate"
    [] m = "select_show_failed" -> "select_show"
    [] m = "select_area_failed" -> "select_area"
    [] m \in { "captcha_failed", "booking_incomplete" } -> "cycle"
    [] OTHER -> "none"

\* C22: when start_booking has ended FAILED or ERROR the reported
\* error_message is not empty and names the stage in which the run stopped.
C22_MessageNamesStage ==
  (BookingDone /\ status \in { "FAILED", "ERROR" }) =>
    /\ ReportErrorMessage # ""
    /\ StageOfMessage(ReportErrorMessage) = Last(stages)

\* C22: a run stopped by the operator during the area selection ended
\* FAILED with the interrupt message
C22_InterruptedInAreaSelection ==
  /\ BookingDone
  /\ status = "FAILED"
  /\ Last(stages) = "select_area"
  /\ ReportErrorMessage = "user_interrupt"

\* C23: once the recognition of a cycle has run out of retries, the run of
\* start_booking has ended in a terminal status with the failure recorded
\* in error_message; no further cycle is started.
C23_RecognitionExhaustionFatal ==
  (op = "start_booking" /\ ocr_failures >= 1) =>
    /\ pc = "done"
    /\ status \in Terminal
    /\ error_message = "captcha_failed"
    /\ ocr_failures = 1

\* C23: the recognition of the first cycle ran out of retries and the
\* second cycle has selected its tickets
C23_CycleAfterExhaustion ==
  /\ op = "start_booking"
  /\ ocr_failures = 1
  /\ attempt = 2
  /\ pc = "cycle_solve"
  /\ status = "SOLVING_CAPTCHA"

\* C24: the target show, the target area, the ticket count and the retry
\* maxima never change after construction.
C24_SessionFixed ==
  [][ /\ target_show' = target_show
      /\ target_area' = target_area
      /\ ticket_count' = ticket_count
      /\ sel_target' = sel_target
      /\ max_captcha_retry' = max_captcha_retry
      /\ max_retry' = max_retry ]_vars

\* C24: set_target has replaced the show and the area of the session and
\* set_max_retry the recognition maximum
C24_SessionReplaced ==
  /\ target_show = "show_b"
  /\ target_area = "area_b"
  /\ sel_target.date = "show_b"
  /\ max_retry = 1

ShowDone == op = "select_match_and_buy" /\ pc = "done"

Listed(show, list) == \E i \in 1..Len(list) : list[i].show = show

\* C25: the purchase page select_match_and_buy opens is that of the
\* configured show, and it raises when the configured show is not listed.
C25_TargetShowOpened ==
  ShowDone =>
    /\ ret = "true" => opened = TARGET_DATE
    /\ ~Listed(TARGET_DATE, game_list) => (ret # "true" /\ opened = NoShow)

\* C25: the page lists the other show first and the configured show second;
\* the other show's purchase page was opened and True returned
C25_OtherShowOpened ==
  /\ ShowDone
  /\ Len(game_list) = 2
  /\ game_list[1].show = "show_b" /\ game_list[2].show = TARGET_DATE
  /\ opened = "show_b"
  /\ ret = "true"

\* C26: in every cycle of start_booking the status is SELECTING_TICKETS
\* while the tickets are selected, SOLVING_CAPTCHA while the challenge is
\* solved, and SUBMITTING while the form is submitted and the feedback
\* awaited.
C26_StatusFollowsCycle ==
  op = "start_booking" =>
    /\ pc = "cycle_tickets" => status = "SELECTING_TICKETS"
    /\ pc = "cycle_solve" => status = "SOLVING_CAPTCHA"
    /\ pc \in { "cycle_submit", "cycle_verify" } => status = "SUBMITTING"

\* C26: the second cycle has submitted its form and awaits the feedback
\* with the status still SOLVING_CAPTCHA
C26_SubmitUnderSolvingCaptcha ==
  /\ op = "start_booking"
  /\ pc = "cycle_verify"
  /\ attempt = 2
  /\ cyc = CycleSteps
  /\ status = "SOLVING_CAPTCHA"

CountOf(q, x) == Cardinality({ i \in 1..Len(q) : q[i] = x })

\* the loop is at its head, or has found no further candidate there
AtNextCandidate ==
  \/ pc = "sa_loop"
  \/ pc = "done" /\ ai = n_areas /\ cause = "area_exhausted"

\* C27: when the captcha image did not appear after the navigation to a
\* candidate: with the area list shown, no back() is issued; with an error
\* message or with neither, back() is issued exactly once, followed by the
\* sleep; in both cases the loop is at its head for the next candidate.
C27_BackUnlessListShown ==
  /\ Contains(fx, "list_shown") =>
       /\ CountOf(fx, "back") = 0
       /\ Last(fx) = "list_shown"
       /\ AtNextCandidate
  /\ (Contains(fx, "error_shown") \/ Contains(fx, "no_signal")) =>
       /\ CountOf(fx, "back") = 1
       /\ Last(fx) = "sleep"
       /\ AtNextCandidate

\* C27: the first of two candidates was opened, nothing recognizable came
\* up, and select_area went back once and is at the loop head
C27_NoSignalBackOnce ==
  /\ op = "select_area"
  /\ n_areas = 2 /\ ai = 1
  /\ pc = "sa_loop"
  /\ fx = << "lookup", "get", "no_signal", "back", "sleep" >>

\* C28: a refresh that fails leaves solve_with_retry running in the same
\* attempt with a further attempt still to come, and a run in which every
\* attempt fails has made max_retry acquisitions, however many refreshes
\* failed.
C28_RefreshFailureTolerated ==
  [][ SolveRuns =>
        /\ ocr_fx'.refresh_errors > ocr_fx.refresh_errors =>
             /\ pc' = "ocr_loop"
             /\ ret' = "none"
             /\ ocr_attempt' = ocr_attempt
             /\ OcrHasNext(ocr_attempt', max_retry)
        /\ (pc = "ocr_loop" /\ ocr_fx.refresh_errors > 0 /\ ocr_attempt < max_retry) =>
             /\ pc' = "ocr_get"
             /\ ocr_attempt' = ocr_attempt + 1
        /\ (ret' = "raise" /\ max_retry >= 1) =>
             /\ ocr_fx'.gets = max_retry
             /\ ocr_fx'.refresh_errors <= max_retry - 1
    ]_vars

\* C28: max_retry = 3, all three attempts failed and both refreshes failed
C28_AllRefreshesFailed ==
  /\ SolveRuns
  /\ ret = "raise"
  /\ max_retry = 3
  /\ ocr_fx = [ gets |-> 3, refreshes |-> 2, refresh_errors |-> 2 ]

Sleeps(w) == w.coarse + w.fine

\* C29: every iteration of the polling loop decides on the clock as it is
\* then: with more than 30 s to go it sleeps 15 s, with 30 s or less but
\* more than 0 it sleeps 1 s, otherwise it refreshes and ends; every
\* iteration does one of the three, and a sleep lasts at least as long as
\* requested.
C29_PollSleepsByDistance ==
  [][ (WaitConfigured /\ pc = "wait_poll") =>
        LET diff == open_at - now IN
        /\ diff > 30 =>
             /\ wfx'.coarse = wfx.coarse + 1 /\ wfx'.fine = wfx.fine
             /\ wfx'.poll_secs = 15
             /\ wfx'.refresh = 0
        /\ (0 < diff /\ diff <= 30) =>
             /\ wfx'.fine = wfx.fine + 1 /\ wfx'.coarse = wfx.coarse
             /\ wfx'.poll_secs = 1
             /\ wfx'.refresh = 0
        /\ diff <= 0 =>
             /\ Sleeps(wfx') = Sleeps(wfx)
             /\ wfx'.refresh = 1
             /\ pc' = "done"
        /\ pc' = "wait_poll" => now' >= now + wfx'.poll_secs
        /\ pc' \in { "wait_poll", "done" }
    ]_vars

\* C29: with exactly 30 s to go the first iteration slept 1 s, and 29 s
\* are left
C29_FineAtThirty ==
  /\ WaitConfigured
  /\ pc = "wait_poll"
  /\ wfx = [ NoWait EXCEPT !.fine = 1, !.poll_secs = 1 ]
  /\ open_at - now = 29

\* C30: every call of wait_until_start_time with a start time, whose sleeps
\* all return, issues its refresh and ends, unless the operator interrupts
\* it.
C30_WaitTerminates ==
  (WaitConfigured /\ pc = "wait_enter") ~>
    (pc = "done" /\ (wfx.refresh = 1 \/ cause = "interrupt"))

\* C30: a call that began before ready_at slept until then, found the sale
\* open, refreshed and returned
C30_ReturnedAfterLongSleep ==
  /\ WaitConfigured
  /\ pc = "done" /\ cause = "none"
  /\ wfx.long = 1 /\ wfx.long_secs = MaxFar
  /\ wfx.refresh = 1

\* C31: a call of start_booking that has returned left the status at SUCCESS,
\* FAILED or ERROR, and it returned True exactly when the status is SUCCESS.
C31_TerminalStatusMatchesResult ==
  BookingDone =>
    /\ status \in Terminal
    /\ ret \in { "true", "false" }
    /\ (ret = "true") <=> (status = "SUCCESS")

\* C31: a run that failed while the show was selected returned False with
\* ERROR
C31_FalseWithError ==
  /\ BookingDone
  /\ status = "ERROR" /\ ret = "false"
  /\ Last(stages) = "select_show"

\* C32: whenever the status is SUCCESS the reported error_message is empty.
C32_SuccessHasNoErrorMessage ==
  status = "SUCCESS" => ReportErrorMessage = ""

\* C32: a booking succeeded after load_login_session had failed, and the
\* report still carries the login failure
C32_SuccessAfterFailedLogin ==
  /\ BookingDone
  /\ status = "SUCCESS"
  /\ ReportErrorMessage = "login_failed"

\* C33: whenever the report includes duration_seconds the value is not
\* negative.
C33_DurationNotNegative ==
  (pc \in { "idle", "done" } /\ ReportHasDuration) => DurationSeconds >= 0

\* C33: the operator interrupted a run that followed a completed one; the
\* end timestamp is the earlier run's and lies before the start timestamp
C33_EndTimeOfEarlierRun ==
  /\ BookingDone
  /\ status = "FAILED" /\ cause = "interrupt"
  /\ ReportHasDuration
  /\ end_time < start_time

\* C34: when a dialog appeared after the submit, the feedback check reports
\* rejected, also when reading its text or dismissing it failed.
C34_DialogNeverAccepted ==
  (FeedbackDone /\ dialog # NoDialog) => has_error

\* C34: a dialog appeared, reading its text raised, and the check reports
\* accepted without a dismiss
C34_AcceptedAfterTextFailed ==
  /\ FeedbackDone
  /\ dialog # NoDialog
  /\ cause = "text_error"
  /\ fb_fx.accepts = 0
  /\ ~has_error

\* C35: within the iteration of one candidate, driver.back() is called only
\* after the candidate was navigated to or clicked.
C35_BackOnlyAfterNavigation ==
  op = "select_area" =>
    \A i \in 1..Len(fx) :
      fx[i] = "back" => \E j \in 1..(i - 1) : fx[j] \in { "get", "click" }

\* C35: reading the second candidate raised before anything was looked up or
\* opened, and the handler navigated back
C35_BackWithoutNavigation ==
  /\ op = "select_area"
  /\ pc = "sa_loop"
  /\ ai = 2
  /\ ~named
  /\ fx[1] = "back"

\* C36: a candidate whose label has the remaining marker but no count after
\* it (and no sold-out marker) is not attempted.
C36_NoCountNotAttempted ==
  ( /\ op = "select_area"
    /\ named
    /\ ~Contains(area_name, "sold_out")
    /\ Contains(area_name, "remaining")
    /\ RemainMatch(area_name) = NoMatch ) => ~Attempted

\* C36: the label is the bare remaining marker and the candidate's page was
\* opened
C36_BareMarkerOpened ==
  /\ op = "select_area"
  /\ named
  /\ area_name = << "remaining" >>
  /\ pc = "sa_probe"
  /\ fx = << "lookup", "get" >>

\* C37: the threshold select_area applies to a candidate labelled remaining N
\* is the ticket count of the session: the candidate is attempted if and only
\* if N >= ticket_count.
C37_ThresholdIsSessionCount ==
  ( /\ op = "select_area"
    /\ named
    /\ ~Contains(area_name, "sold_out")
    /\ RemainMatch(area_name) # NoMatch ) =>
      (Attempted <=> RemainMatch(area_name) >= ToInt(ticket_count))

\* C37: after set_target(count=2) a candidate with one ticket remaining was
\* opened, config.TICKET_VALUE being 1
C37_SessionCountIgnored ==
  /\ op = "select_area"
  /\ ticket_count = "2" /\ sel_target.count = "2"
  /\ TICKET_VALUE = "1"
  /\ named
  /\ area_name = << "remaining", "1" >>
  /\ pc = "sa_probe"

\* C38: in one cycle the submit comes after exactly one text was typed into
\* the challenge input, the text solve_with_retry returned in this cycle,
\* after the quantity was selected; every text typed has at least 4
\* characters; and a cycle whose recognition ran out of attempts types and
\* submits nothing.
C38_SubmitAfterOneText ==
  op = "cycle" =>
    /\ form.submits <= 1
    /\ Len(form.typed) <= 1
    /\ \A i \in 1..Len(form.typed) :
         /\ Len(form.typed[i]) >= 4
         /\ form.typed[i] = captcha_text
    /\ form.typed # << >> => form.selected # NoQuantity
    /\ form.submits = 1 => Len(form.typed) = 1
    /\ cause = "ocr_exhausted" => (form.typed = << >> /\ form.submits = 0)

\* C38: the first recognition failed, the second gave four characters, which
\* were typed and submitted
C38_SecondTextSubmitted ==
  /\ op = "cycle"
  /\ ret = "submitted"
  /\ ocr_attempt = 2
  /\ form.submits = 1
  /\ Len(form.typed) = 1 /\ Len(form.typed[1]) = 4

SelectTicketsRuns == op = "select_tickets" /\ form.offered # {}

\* the positive quantities offered
Positive(options) == { q \in options : ToInt(q) > 0 }

\* C40: select_tickets selects config.TICKET_VALUE when the list offers it,
\* else the largest positive quantity offered, else 0, and in each case it
\* returns True unless the page fails or the operator interrupts.
C40_QuantityFallback ==
  SelectTicketsRuns =>
    LET options == form.offered
        want == TICKET_VALUE
    IN /\ want \in options => form.selected = want
       /\ (want \notin options /\ Positive(options) # {}) =>
            /\ form.selected \in Positive(options)
            /\ \A q \in Positive(options) : ToInt(q) <= ToInt(form.selected)
       /\ (want \notin options /\ Positive(options) = {}) => form.selected = "0"
       /\ (pc = "done" /\ cause \notin { "fault", "interrupt" }) => ret = "true"

\* C40: one ticket was wanted, the list offered 0, 2 and 3, and 3 was
\* selected with success
C40_LargestSelected ==
  /\ SelectTicketsRuns
  /\ pc = "done" /\ ret = "true"
  /\ TICKET_VALUE = "1"
  /\ form.offered = { "0", "2", "3" }
  /\ form.selected = "3"

\* the call has slept at least once: it was entered before open_at
HasSlept == wfx.long + wfx.coarse + wfx.fine >= 1

\* C39: with exact sleeps, a call entered before open_at never finishes a
\* sleep after open_at and issues its refresh less than 1 s after open_at;
\* and a 15 s sleep is started only with more than 30 s to go.
C39_ExactSleepsOnTime ==
  /\ [] ( (WaitConfigured /\ HasSlept) =>
            /\ now <= open_at
            /\ wfx.refresh = 1 => (now >= open_at /\ now - open_at < 1) )
  /\ [][ (WaitConfigured /\ wfx'.coarse = wfx.coarse + 1) => open_at - now > 30 ]_vars

\* C39: the call slept 15 s once and 1 s seventeen times and refreshed on
\* the second of the sale
C39_RefreshOnTheSecond ==
  /\ WaitConfigured
  /\ pc = "done" /\ cause = "none"
  /\ wfx.coarse = 1 /\ wfx.fine = MaxFar - COARSE_SLEEP
  /\ wfx.refresh = 1
  /\ now = open_at

====
